---- MODULE Spec2Model ----
(***************************************************************************)
(* A model of the detection core of the ChaChing browser extension:        *)
(* the PDP scorer (pdp-detector.js) and the brand voter                    *)
(* (brand-detector.js, brands.js, utils.js normalizeBrand).                *)
(*                                                                         *)
(* Strings are sequences of one-character strings, so that normalisation,  *)
(* trimming and comparison are computed character by character.            *)
(***************************************************************************)
EXTENDS Integers, Sequences, FiniteSets, TLC

VARIABLES
  doc,        \* the document as the PDP detector reads it
  pdp,        \* the last run of PdpDetector.isProductPage on doc
  dbg,        \* the last run of PdpDetector.debugDetection on doc
  csvLines,   \* the lines of BrandList.csv, the header first
  brandsLoaded,            \* whether loadBrands has completed on this page
  lastLoad,                \* how the last loadBrands ended: try block or catch
  SUPPORTED_BRANDS_MAP,    \* window.SUPPORTED_BRANDS_MAP, in insertion order
  SUPPORTED_BRANDS_ARRAY,  \* window.SUPPORTED_BRANDS_ARRAY
  page,       \* the document as the brand detector reads it
  brandRun,   \* the last run of BrandDetector.detectBrandOnPage on page
  normInput,  \* a value handed to normalizeBrand
  normRun,    \* the last call of normalizeBrand on normInput
  href,             \* window.location.href of the tab: the view it shows
  navs,             \* the URL changes the tab has made in this page context
  reDetects,        \* the RE_DETECT messages the content script has handled
  runnerAwaiting,   \* runDetection passes waiting for loadBrands
  messages,         \* runtime messages on their way to the background
  detectedProducts, \* the background's Map, tab id to detection entry
  uiInjections,     \* handleDetectionComplete calls waiting on chrome.scripting
  cs,               \* window.chachingContentScript
  timers,           \* pending setTimeout callbacks of the content script
  showPending,      \* showNotification calls waiting for storage
  notifications,    \* the .chaching-notification elements of the document
  tabOpen,          \* whether the tab exists
  tabEvents,        \* tabs.onUpdated / onRemoved events not yet dispatched
  listeners,        \* tabs.onUpdated listener calls waiting on an await
  injectedHere,     \* injections of the detection scripts into this page
  clock,            \* the time new Date() gives, in milliseconds
  storage,          \* chrome.storage.local: the dismissal record of each URL
  showCalls,        \* showNotification calls waiting with their key and record
  dismissals        \* when the user last dismissed a notification on each URL

pdpVars == <<doc, pdp, dbg>>
brandVars ==
  <<csvLines, brandsLoaded, lastLoad, SUPPORTED_BRANDS_MAP,
    SUPPORTED_BRANDS_ARRAY, page, brandRun>>
normVars == <<normInput, normRun>>
tabVars ==
  <<href, navs, reDetects, runnerAwaiting, messages, detectedProducts,
    uiInjections, cs, timers, showPending, notifications>>
backgroundVars == <<tabOpen, tabEvents, listeners, injectedHere>>
dismissalVars == <<clock, storage, showCalls, dismissals>>
vars == <<pdpVars, brandVars, normVars, tabVars, backgroundVars, dismissalVars>>

\* What an operation of one component leaves alone.
outsidePdp == <<brandVars, normVars, tabVars, backgroundVars, dismissalVars>>
outsideBrand == <<pdpVars, normVars, tabVars, backgroundVars, dismissalVars>>
outsideNorm ==
  <<pdpVars, brandVars, tabVars, backgroundVars, dismissalVars>>
outsideTab == <<dbg, normVars, backgroundVars, dismissalVars>>

(***************************************************************************)
(* Bounds                                                                  *)
(***************************************************************************)
\* The number of <script type="application/ld+json"> elements of a document.
MaxScripts == 2

RECURSIVE SeqsUpTo(_, _)
SeqsUpTo(S, n) ==
  IF n = 0 THEN {<<>>}
  ELSE LET shorter == SeqsUpTo(S, n - 1)
       IN  shorter \cup {Append(s, x) : s \in {t \in shorter : Len(t) = n - 1}, x \in S}

(***************************************************************************)
(* The document, as far as the PDP detector can tell documents apart.      *)
(***************************************************************************)
\* What JSON.parse and the two Product tests make of one JSON-LD script:
\*   "invalid"  JSON.parse throws, or the value has no properties to read
\*   "other"    valid JSON that is neither a Product with offers nor holds one
\*   "product"  data['@type'] === 'Product' && data.offers, or data['@graph']
\*              holds an item with @type Product and offers
ScriptKinds == {"invalid", "other", "product"}

\* The checks whose outcome is one fact of the document.
PlainSignals ==
  {"price", "images", "urlPattern", "reviews", "description", "metadata",
   "selectors", "shipping"}

\* The first element a breadcrumb selector finds:
\*   "none"         no element, or its innerText holds neither '>' nor '/'
\*   "trail"        its innerText holds '>' or '/'
\*   "noInnerText"  the element has no innerText (an SVG element whose class
\*                  contains "breadcrumb"): innerText.includes throws
BreadcrumbKinds == {"none", "trail", "noInnerText"}

Docs ==
  [actionText : BOOLEAN,       \* body text holds an action-button phrase
   actionAttr : BOOLEAN,       \* an interactive element's markup holds a fragment
   ldJson     : SeqsUpTo(ScriptKinds, MaxScripts),
   facts      : SUBSET PlainSignals,
   breadcrumb : BreadcrumbKinds]

(***************************************************************************)
(* The signal checks of PdpDetector                                        *)
(***************************************************************************)
detectActionButtons(d) == d.actionText \/ d.actionAttr

RECURSIVE ScanScripts(_)
ScanScripts(scripts) ==
  IF scripts = <<>> THEN [found |-> FALSE, hasOffer |-> FALSE]
  ELSE IF Head(scripts) = "product"
       THEN [found |-> TRUE, hasOffer |-> TRUE]
       ELSE ScanScripts(Tail(scripts))   \* caught parse error or no match: next script

\* Faulty variant: only the first script is read (querySelector for querySelectorAll).
detectStructuredDataFirstOnly(d) ==
  IF d.ldJson # <<>> /\ Head(d.ldJson) = "product"
  THEN [found |-> TRUE, hasOffer |-> TRUE]
  ELSE [found |-> FALSE, hasOffer |-> FALSE]

detectStructuredData(d) == ScanScripts(d.ldJson)

detectPrice(d) == [found |-> "price" \in d.facts]
detectProductImages(d) == "images" \in d.facts
detectProductUrlPattern(d) == "urlPattern" \in d.facts
detectReviews(d) == "reviews" \in d.facts
detectProductDescription(d) == "description" \in d.facts
detectProductMetadata(d) == "metadata" \in d.facts
detectProductSelectors(d) == "selectors" \in d.facts
detectShippingInfo(d) == "shipping" \in d.facts
detectBreadcrumbs(d) == d.breadcrumb = "trail"

\* The order in which isProductPage and debugDetection call the ten checks.
CheckOrder ==
  <<"structuredData", "price", "images", "urlPattern", "reviews",
    "description", "metadata", "selectors", "breadcrumbs", "shipping">>

ScoredSignals == {CheckOrder[i] : i \in 1..Len(CheckOrder)}

\* The truthiness each caller tests of a check's return value.
SignalPresent(d, sig) ==
  CASE sig = "structuredData" ->
         detectStructuredData(d).found /\ detectStructuredData(d).hasOffer
    [] sig = "price"       -> detectPrice(d).found
    [] sig = "images"      -> detectProductImages(d)
    [] sig = "urlPattern"  -> detectProductUrlPattern(d)
    [] sig = "reviews"     -> detectReviews(d)
    [] sig = "description" -> detectProductDescription(d)
    [] sig = "metadata"    -> detectProductMetadata(d)
    [] sig = "selectors"   -> detectProductSelectors(d)
    [] sig = "breadcrumbs" -> detectBreadcrumbs(d)
    [] sig = "shipping"    -> detectShippingInfo(d)

\* A check that ends in an uncaught TypeError on this document.
SignalThrows(d, sig) == sig = "breadcrumbs" /\ d.breadcrumb = "noInnerText"

(***************************************************************************)
(* PdpDetector.isProductPage                                               *)
(***************************************************************************)
\* Faulty variant: the weights of the README's table (price 35, reviews 10).
isProductPageWeightReadme(sig) ==
  CASE sig = "structuredData" -> 40
    [] sig = "price"          -> 35
    [] sig = "images"         -> 20
    [] sig = "urlPattern"     -> 25
    [] sig = "reviews"        -> 10
    [] sig = "description"    -> 15
    [] sig = "metadata"       -> 10
    [] sig = "selectors"      -> 10
    [] sig = "breadcrumbs"    -> 15
    [] sig = "shipping"       -> 15

\* Faulty variant: the metadata check subtracts its points (-= for +=).
isProductPageWeightPenalty(sig) ==
  CASE sig = "structuredData" -> 40
    [] sig = "price"          -> 25
    [] sig = "images"         -> 20
    [] sig = "urlPattern"     -> 25
    [] sig = "reviews"        -> 15
    [] sig = "description"    -> 15
    [] sig = "metadata"       -> 0 - 10
    [] sig = "selectors"      -> 10
    [] sig = "breadcrumbs"    -> 15
    [] sig = "shipping"       -> 15

\* The points isProductPage adds for each check that is present.
isProductPageWeight(sig) ==
  CASE sig = "structuredData" -> 40
    [] sig = "price"          -> 25
    [] sig = "images"         -> 20
    [] sig = "urlPattern"     -> 25
    [] sig = "reviews"        -> 15
    [] sig = "description"    -> 15
    [] sig = "metadata"       -> 10
    [] sig = "selectors"      -> 10
    [] sig = "breadcrumbs"    -> 15
    [] sig = "shipping"       -> 15

\* const isPDP = confidenceScore >= 75
PdpThreshold == 75
\* Faulty variant: > for >=.
MeetsThresholdStrict(score) == score > PdpThreshold
MeetsThreshold(score) == score >= PdpThreshold

\* A run that has not happened.
NoRun ==
  [state |-> "none", ret |-> FALSE, hasActionButtons |-> FALSE,
   confidenceScore |-> 0, signals |-> {}, calls |-> <<>>]

\* The checks of `order` one after the other, from the run `acc`; the first
\* check that throws ends the run, nothing in isProductPage catches it.
RECURSIVE RunChecks(_, _, _)
RunChecks(d, order, acc) ==
  IF order = <<>> THEN acc
  ELSE LET sig == Head(order)
           called == [acc EXCEPT !.calls = Append(@, sig)]
       IN  IF SignalThrows(d, sig)
           THEN [called EXCEPT !.state = "threw"]
           ELSE IF SignalPresent(d, sig)
                THEN RunChecks(d, Tail(order),
                       [called EXCEPT
                          !.confidenceScore = @ + isProductPageWeight(sig),
                          !.signals = @ \cup {sig}])
                ELSE RunChecks(d, Tail(order), called)

\* Faulty variant: the early return is missing.
GateIgnored(hasActionButtons) == TRUE

\* Whether the gate lets the scoring start.
GateOpen(hasActionButtons) == hasActionButtons

\* The whole method: the gate, then the ten checks, then the threshold.  On
\* the early return no score exists; the run records the 0 points gathered.
isProductPage(d) ==
  LET hasActionButtons == detectActionButtons(d)
      start == [NoRun EXCEPT !.state = "returned",
                             !.hasActionButtons = hasActionButtons]
  IN  IF ~GateOpen(hasActionButtons) THEN start
      ELSE LET run == RunChecks(d, CheckOrder, start)
           IN  IF run.state = "threw" THEN run
               ELSE [run EXCEPT !.ret = MeetsThreshold(run.confidenceScore)]

(***************************************************************************)
(* PdpDetector.debugDetection                                              *)
(***************************************************************************)
\* Faulty variant: debugDetection scores the price as the README's table does.
debugDetectionWeightReadme(sig) ==
  CASE sig = "structuredData" -> 40
    [] sig = "price"          -> 35
    [] sig = "images"         -> 20
    [] sig = "urlPattern"     -> 25
    [] sig = "reviews"        -> 15
    [] sig = "description"    -> 15
    [] sig = "metadata"       -> 10
    [] sig = "selectors"      -> 10
    [] sig = "breadcrumbs"    -> 15
    [] sig = "shipping"       -> 15

\* The points debugDetection adds for each entry of results.scoring.
debugDetectionWeight(sig) ==
  CASE sig = "structuredData" -> 40
    [] sig = "price"          -> 25
    [] sig = "images"         -> 20
    [] sig = "urlPattern"     -> 25
    [] sig = "reviews"        -> 15
    [] sig = "description"    -> 15
    [] sig = "metadata"       -> 10
    [] sig = "selectors"      -> 10
    [] sig = "breadcrumbs"    -> 15
    [] sig = "shipping"       -> 15

\* results.threshold
debugThreshold == 75

NoDebug ==
  [state |-> "none", found |-> FALSE, scoring |-> {}, totalScore |-> 0,
   isPDP |-> FALSE, calls |-> <<>>]

\* The object literal: every check is called, in order, whatever the gate
\* says; a check that throws ends debugDetection before any score exists.
RECURSIVE FillScoring(_, _, _)
FillScoring(d, order, acc) ==
  IF order = <<>> THEN acc
  ELSE LET sig == Head(order)
           called == [acc EXCEPT !.calls = Append(@, sig)]
       IN  IF SignalThrows(d, sig)
           THEN [called EXCEPT !.state = "threw"]
           ELSE FillScoring(d, Tail(order),
                  IF SignalPresent(d, sig)
                  THEN [called EXCEPT !.scoring = @ \cup {sig}]
                  ELSE called)

RECURSIVE SumScoring(_, _)
SumScoring(scoring, order) ==
  IF order = <<>> THEN 0
  ELSE (IF Head(order) \in scoring THEN debugDetectionWeight(Head(order)) ELSE 0)
       + SumScoring(scoring, Tail(order))

debugDetection(d) ==
  LET start == [NoDebug EXCEPT !.state = "returned",
                               !.found = detectActionButtons(d)]
      filled == FillScoring(d, CheckOrder, start)
  IN  IF filled.state = "threw" THEN filled
      ELSE LET total == SumScoring(filled.scoring, CheckOrder)
           IN  [filled EXCEPT !.totalScore = total,
                              !.isPDP = filled.found /\ total >= debugThreshold]

(***************************************************************************)
(* Strings: sequences of one-character strings                             *)
(***************************************************************************)
UpperCaseLetters ==
  <<"A", "B", "C", "D", "E", "F", "G", "H", "I", "J", "K", "L", "M",
    "N", "O", "P", "Q", "R", "S", "T", "U", "V", "W", "X", "Y", "Z">>
LowerCaseLetters ==
  <<"a", "b", "c", "d", "e", "f", "g", "h", "i", "j", "k", "l", "m",
    "n", "o", "p", "q", "r", "s", "t", "u", "v", "w", "x", "y", "z">>
Digits == {"0", "1", "2", "3", "4", "5", "6", "7", "8", "9"}

toLowerCaseChar(c) ==
  IF \E i \in 1..Len(UpperCaseLetters) : UpperCaseLetters[i] = c
  THEN LowerCaseLetters[CHOOSE i \in 1..Len(UpperCaseLetters) : UpperCaseLetters[i] = c]
  ELSE c

\* String.prototype.toLowerCase
toLowerCase(s) == [i \in 1..Len(s) |-> toLowerCaseChar(s[i])]

\* The characters the regular expression class \s and trim() treat as space.
WhiteSpace == {" ", "\t", "\n", "\r"}

RECURSIVE trimStart(_)
trimStart(s) ==
  IF s # <<>> /\ Head(s) \in WhiteSpace THEN trimStart(Tail(s)) ELSE s

RECURSIVE trimEnd(_)
trimEnd(s) ==
  IF s # <<>> /\ s[Len(s)] \in WhiteSpace
  THEN trimEnd(SubSeq(s, 1, Len(s) - 1))
  ELSE s

\* String.prototype.trim
trim(s) == trimEnd(trimStart(s))

\* Faulty variant: the replace is not global, only the first hit is removed.
RemoveFirstChar(s, chars) ==
  IF \E i \in 1..Len(s) : s[i] \in chars
  THEN LET first == CHOOSE i \in 1..Len(s) :
                      s[i] \in chars /\ \A j \in 1..(i - 1) : s[j] \notin chars
       IN  SubSeq(s, 1, first - 1) \o SubSeq(s, first + 1, Len(s))
  ELSE s

\* s.replace(/[chars]/g, '')
RemoveChars(s, chars) == SelectSeq(s, LAMBDA c : c \notin chars)

\* s.split(sep), for a one-character separator
RECURSIVE SplitFrom(_, _, _)
SplitFrom(s, sep, current) ==
  IF s = <<>> THEN <<current>>
  ELSE IF Head(s) = sep
       THEN <<current>> \o SplitFrom(Tail(s), sep, <<>>)
       ELSE SplitFrom(Tail(s), sep, Append(current, Head(s)))

split(s, sep) == SplitFrom(s, sep, <<>>)

\* A value that may be missing (null, undefined, no such element).
None == <<>>
Some(x) == <<x>>

(***************************************************************************)
(* utils.js: normalizeBrand                                                *)
(***************************************************************************)
\* The class of the first replace: ' (R) (TM) & (C) - . ,  The three signs
\* that are not ASCII are written "(R)", "(TM)" and "(C)", one character each.
StrippedSymbols == {"'", "(R)", "(TM)", "&", "(C)", "-", ".", ","}

\* brandName is a string here; the empty string is falsy and yields ''.
normalizeBrand(brandName) ==
  IF brandName = <<>> THEN <<>>
  ELSE trim(RemoveChars(RemoveChars(toLowerCase(brandName), StrippedSymbols),
                        WhiteSpace))

\* A JavaScript value as normalizeBrand's guard can tell values apart: its
\* typeof, and the string itself or a name for a value that is not a string.
FalsyNames == {"undefined", "null", "0", "NaN", "false"}
TruthyNames == {"5", "true", "{}", "[]"}
TypeOfName(name) ==
  IF name = "undefined" THEN "undefined"
  ELSE IF name \in {"0", "NaN", "5"} THEN "number"
  ELSE IF name \in {"false", "true"} THEN "boolean"
  ELSE "object"
StringValue(s) == [typeof |-> "string", value |-> s]
OtherValue(name) == [typeof |-> TypeOfName(name), value |-> <<name>>]

\* !brandName
Falsy(brandName) ==
  IF brandName.typeof = "string" THEN brandName.value = <<>>
  ELSE brandName.value[1] \in FalsyNames

\* Faulty variant: the typeof test is missing from the guard.
GuardRejectsFalsyOnly(brandName) == Falsy(brandName)

\* !brandName || typeof brandName !== 'string'
GuardRejects(brandName) == Falsy(brandName) \/ brandName.typeof # "string"

\* normalizeBrand on any value: the guard, then the chain of string methods,
\* which exists on strings only (a TypeError on anything else).
normalizeBrandAny(brandName) ==
  IF GuardRejects(brandName)
  THEN [state |-> "returned", typeof |-> "string", value |-> <<>>]
  ELSE IF brandName.typeof = "string"
       THEN [state |-> "returned", typeof |-> "string",
             value |-> normalizeBrand(brandName.value)]
       ELSE [state |-> "threw", typeof |-> "undefined", value |-> <<>>]

(***************************************************************************)
(* JavaScript Map: a sequence of <<key, value>> in insertion order         *)
(***************************************************************************)
MapKeys(m) == [i \in 1..Len(m) |-> m[i][1]]
MapHas(m, k) == \E i \in 1..Len(m) : m[i][1] = k
MapGet(m, k) == m[CHOOSE i \in 1..Len(m) : m[i][1] = k][2]
\* set() of a key that is present replaces the value and keeps the position.
MapSet(m, k, v) ==
  IF MapHas(m, k)
  THEN [i \in 1..Len(m) |-> IF m[i][1] = k THEN <<k, v>> ELSE m[i]]
  ELSE Append(m, <<k, v>>)

\* new Map(entries)
RECURSIVE MapFrom(_, _)
MapFrom(entries, m) ==
  IF entries = <<>> THEN m
  ELSE MapFrom(Tail(entries), MapSet(m, Head(entries)[1], Head(entries)[2]))

(***************************************************************************)
(* brands.js: loadBrands                                                   *)
(***************************************************************************)
\* cashback: 33
StaticCashback == 33

\* csvText.split('\n').slice(1).map(trim, remove quotes).filter(Boolean)
ParseBrandNames(lines) ==
  LET rows == SubSeq(lines, 2, Len(lines))
      names == [i \in 1..Len(rows) |-> RemoveChars(trim(rows[i]), {"\""})]
  IN  SelectSeq(names, LAMBDA name : name # <<>>)

\* The Map built on the success path.
BuildBrandsMap(lines) ==
  LET brandNames == ParseBrandNames(lines)
      brands == [i \in 1..Len(brandNames) |->
                   [name |-> brandNames[i], cashback |-> StaticCashback]]
  IN  MapFrom([i \in 1..Len(brands) |->
                 <<normalizeBrand(brands[i].name), brands[i]>>], <<>>)

\* Faulty variant: the catch block only logs and leaves the globals alone.
RegistryKeptAfterFailure(old) == old

\* The catch block: new Map() and [] whatever the globals held.
RegistryAfterFailure(old) == <<>>

(***************************************************************************)
(* brand-detector.js: BrandDetector                                        *)
(***************************************************************************)
\* extractProductTitle: h1 text, else og:title, else document.title.
extractProductTitle(p) ==
  IF p.h1 # None /\ trim(p.h1[1]) # <<>> THEN trim(p.h1[1])
  ELSE IF p.ogTitle # None /\ p.ogTitle[1] # <<>> THEN trim(p.ogTitle[1])
  ELSE trim(p.title)

\* \w of a regular expression
IsWordChar(c) ==
  \/ \E i \in 1..Len(UpperCaseLetters) : c \in {UpperCaseLetters[i], LowerCaseLetters[i]}
  \/ c \in Digits
  \/ c = "_"

\* \b at the position after the first pos characters of t.
WordBoundary(t, pos) ==
  (pos >= 1 /\ IsWordChar(t[pos])) # (pos < Len(t) /\ IsWordChar(t[pos + 1]))

\* The positions at which key occurs in t as a whole word, whatever the case
\* of the letters: what /\b<key>\b/i matches for a key of literal characters.
MatchPositions(t, key) ==
  {pos \in 0..(Len(t) - Len(key)) :
     /\ toLowerCase(SubSeq(t, pos + 1, pos + Len(key))) = toLowerCase(key)
     /\ WordBoundary(t, pos)
     /\ WordBoundary(t, pos + Len(key))}

\* new RegExp(`\\b${brand}\\b`, 'i') for a key made of literal characters and
\* the alternation sign: the key is pasted into the pattern as it is, so the
\* pattern is a list of alternatives, the first one anchored by the leading
\* \b only and the last one by the trailing \b only.
Alternatives(key) == split(key, "|")

\* Alternative k of the pattern matches t at the position after pos characters.
AlternativeMatchesAt(t, alternatives, k, pos) ==
  LET literal == alternatives[k]
  IN  /\ pos + Len(literal) <= Len(t)
      /\ toLowerCase(SubSeq(t, pos + 1, pos + Len(literal))) = toLowerCase(literal)
      /\ (k = 1 => WordBoundary(t, pos))
      /\ (k = Len(alternatives) => WordBoundary(t, pos + Len(literal)))

\* lowerCaseTitle.match(brandRegex): the leftmost position at which an
\* alternative matches and the first alternative that matches there, as
\* match.index and match[0].length; None for null.
RegExpMatch(t, key) ==
  LET alternatives == Alternatives(key)
      hits == {pos \in 0..Len(t) :
                 \E k \in 1..Len(alternatives) :
                   AlternativeMatchesAt(t, alternatives, k, pos)}
  IN  IF hits = {} THEN None
      ELSE LET index == CHOOSE pos \in hits : \A other \in hits : pos <= other
               first == CHOOSE k \in 1..Len(alternatives) :
                          /\ AlternativeMatchesAt(t, alternatives, k, index)
                          /\ \A j \in 1..(k - 1) :
                               ~AlternativeMatchesAt(t, alternatives, j, index)
           IN  Some([index |-> index, length |-> Len(alternatives[first])])

\* Strategy 2: one candidate per supported key whose pattern matches the
\* lower-cased title, cut from the title in its original casing.
RECURSIVE TitleCandidates(_, _)
TitleCandidates(productTitle, keys) ==
  IF keys = <<>> THEN <<>>
  ELSE LET lowerCaseTitle == toLowerCase(productTitle)
           match == RegExpMatch(lowerCaseTitle, Head(keys))
           rest == TitleCandidates(productTitle, Tail(keys))
       IN  IF match = None THEN rest
           ELSE <<SubSeq(productTitle, match[1].index + 1,
                         match[1].index + match[1].length)>> \o rest

\* The texts of `texts` that are not blank, trimmed (innerText?.trim() tests).
TrimmedNonBlank(texts) ==
  LET trimmed == [i \in 1..Len(texts) |-> trim(texts[i])]
  IN  SelectSeq(trimmed, LAMBDA t : t # <<>>)

\* A meta element's content, pushed trimmed when the content is not empty.
MetaCandidate(content) ==
  IF content # None /\ content[1] # <<>> THEN <<trim(content[1])>> ELSE <<>>

\* Faulty variant: the last breadcrumb link instead of the one before it.
BreadcrumbLastItem(breadcrumbItems) ==
  IF Len(breadcrumbItems) > 1
  THEN LET brandCandidate == trim(breadcrumbItems[Len(breadcrumbItems)])
       IN  IF Len(brandCandidate) > 2
              /\ toLowerCase(brandCandidate) \notin
                   {<<"h", "o", "m", "e">>,
                    <<"p", "r", "o", "d", "u", "c", "t", "s">>,
                    <<"s", "h", "o", "p">>}
           THEN <<brandCandidate>>
           ELSE <<>>
  ELSE <<>>

\* Strategy 6: the second-to-last breadcrumb link.
BreadcrumbCandidate(breadcrumbItems) ==
  IF Len(breadcrumbItems) > 1
  THEN LET brandCandidate == trim(breadcrumbItems[Len(breadcrumbItems) - 1])
       IN  IF Len(brandCandidate) > 2
              /\ toLowerCase(brandCandidate) \notin
                   {<<"h", "o", "m", "e">>,
                    <<"p", "r", "o", "d", "u", "c", "t", "s">>,
                    <<"s", "h", "o", "p">>}
           THEN <<brandCandidate>>
           ELSE <<>>
  ELSE <<>>

\* Faulty variant: the first label of the hostname.
extractFirstLabel(hostname) ==
  IF hostname = <<>> THEN None ELSE Some(split(hostname, ".")[1])

\* extractMainDomain: the label before the last one, or the hostname itself.
extractMainDomain(hostname) ==
  IF hostname = <<>> THEN None
  ELSE LET domainParts == split(hostname, ".")
       IN  IF Len(domainParts) >= 2
           THEN Some(domainParts[Len(domainParts) - 1])
           ELSE Some(hostname)

\* Strategy 8: pushed when the extracted label is not empty.
DomainCandidate(hostname) ==
  LET domain == extractMainDomain(hostname)
  IN  IF domain # None /\ domain[1] # <<>> THEN <<domain[1]>> ELSE <<>>

\* findAllBrandCandidates: the eight strategies in order, duplicates kept.
findAllBrandCandidates(p, keys) ==
       (IF p.ldBrand # None /\ trim(p.ldBrand[1]) # <<>>
        THEN <<trim(p.ldBrand[1])>> ELSE <<>>)
    \o (IF extractProductTitle(p) # <<>>
        THEN TitleCandidates(extractProductTitle(p), keys) ELSE <<>>)
    \o MetaCandidate(p.ogBrand)
    \o TrimmedNonBlank(p.semantic)
    \o TrimmedNonBlank(p.labelValues)
    \o BreadcrumbCandidate(p.breadcrumbItems)
    \o MetaCandidate(p.ogSiteName)
    \o DomainCandidate(p.hostname)

\* Faulty variant: one vote per key however often it is mentioned.
CastVoteOnce(voteCounts, supportedBrandName) ==
  MapSet(voteCounts, supportedBrandName, 1)

\* voteCounts.set(name, (voteCounts.get(name) || 0) + 1)
CastVote(voteCounts, supportedBrandName) ==
  MapSet(voteCounts, supportedBrandName,
         (IF MapHas(voteCounts, supportedBrandName)
          THEN MapGet(voteCounts, supportedBrandName) ELSE 0) + 1)

\* normalizeBrand(candidate) === supportedBrandName
CandidateMatches(candidate, supportedBrandName) ==
  normalizeBrand(candidate) = supportedBrandName

\* candidates.forEach(...) for one supported key
RECURSIVE TallyKey(_, _, _)
TallyKey(candidates, supportedBrandName, voteCounts) ==
  IF candidates = <<>> THEN voteCounts
  ELSE TallyKey(Tail(candidates), supportedBrandName,
         IF CandidateMatches(Head(candidates), supportedBrandName)
         THEN CastVote(voteCounts, supportedBrandName)
         ELSE voteCounts)

\* for (const supportedBrandName of SUPPORTED_BRANDS_MAP.keys())
RECURSIVE Tally(_, _, _)
Tally(candidates, keys, voteCounts) ==
  IF keys = <<>> THEN voteCounts
  ELSE Tally(candidates, Tail(keys), TallyKey(candidates, Head(keys), voteCounts))

\* votes > maxVotes
BeatsLeader(votes, maxVotes) == votes > maxVotes

\* for (const [brandName, votes] of voteCounts.entries())
RECURSIVE FindWinner(_, _, _)
FindWinner(entries, maxVotes, winningBrandName) ==
  IF entries = <<>> THEN winningBrandName
  ELSE IF BeatsLeader(Head(entries)[2], maxVotes)
       THEN FindWinner(Tail(entries), Head(entries)[2], Some(Head(entries)[1]))
       ELSE FindWinner(Tail(entries), maxVotes, winningBrandName)

\* Faulty variant: the winner's record is made up from the winning key.
WinnerRecordFromKey(brandsMap, winningBrandName) ==
  Some([name |-> winningBrandName, cashback |-> StaticCashback])

\* SUPPORTED_BRANDS_MAP.get(winningBrandName)
WinnerRecord(brandsMap, winningBrandName) ==
  IF MapHas(brandsMap, winningBrandName)
  THEN Some(MapGet(brandsMap, winningBrandName))
  ELSE None

\* determineBestBrandByVotes, with the tally and the winning key it went
\* through.  if (winningBrandName) is false for null and for the empty string.
determineBestBrandByVotes(candidates, brandsMap) ==
  IF candidates = <<>>
  THEN [voteCounts |-> <<>>, winningBrandName |-> None, bestBrand |-> None]
  ELSE LET voteCounts == Tally(candidates, MapKeys(brandsMap), <<>>)
       IN  IF voteCounts = <<>>
           THEN [voteCounts |-> voteCounts, winningBrandName |-> None,
                 bestBrand |-> None]
           ELSE LET winningBrandName == FindWinner(voteCounts, 0, None)
                IN  [voteCounts |-> voteCounts,
                     winningBrandName |-> winningBrandName,
                     bestBrand |->
                       IF winningBrandName # None /\ winningBrandName[1] # <<>>
                       THEN WinnerRecord(brandsMap, winningBrandName[1])
                       ELSE None]

\* A run that has not happened.  A run records the registry it read.
NoBrandRun ==
  [state |-> "none", brandsMap |-> <<>>, candidates |-> <<>>, voteCounts |-> <<>>,
   winningBrandName |-> None, bestBrand |-> None, result |-> None]

\* detectBrandOnPage
detectBrandOnPage(p, brandsMap, brandsArray) ==
  LET candidates == findAllBrandCandidates(p, brandsArray)
      vote == determineBestBrandByVotes(candidates, brandsMap)
  IN  [state |-> "returned",
       brandsMap |-> brandsMap,
       candidates |-> candidates,
       voteCounts |-> vote.voteCounts,
       winningBrandName |-> vote.winningBrandName,
       bestBrand |-> vote.bestBrand,
       result |->
         IF vote.bestBrand # None
         THEN Some([isSupported |-> TRUE,
                    productInfo |->
                      [brand |-> vote.bestBrand[1].name,
                       title |-> extractProductTitle(p),
                       cashback |-> vote.bestBrand[1].cashback]])
         ELSE None]

(***************************************************************************)
(* Inputs of the brand detector                                            *)
(***************************************************************************)
\* The number of data rows of BrandList.csv.
MaxRows == 2

Header == <<"B", "r", "a", "n", "d">>
Nike == <<"N", "i", "k", "e">>
NikeUpper == <<"N", "I", "K", "E">>
Nikes == <<"N", "i", "k", "e", "s">>
NikeAir == <<"N", "i", "k", "e", " ", "A", "i", "r">>
LevisApostrophe == <<"L", "e", "v", "i", "'", "s">>
LevisQuoted == <<"\"", "L", "e", "v", "i", "'", "s", "\"">>
Levis == <<"L", "e", "v", "i", "s">>
Dash == <<"-">>
NikeFive == <<"N", "i", "k", "e", ",", "5">>
SpacedDash == <<" ", "-", " ">>
Home == <<"H", "o", "m", "e">>
Air == <<"A", "i", "r">>
NikeHost == <<"w", "w", "w", ".", "n", "i", "k", "e", ".", "c", "o", "m">>

\* Data rows a brand list may hold: a plain name, a quoted name with a
\* stripped symbol, a row of punctuation only, and a row with a cashback
\* column as the README's sample of the file has them.
RowPool == {Nike, LevisQuoted, Dash, NikeFive}

\* csvText.split('\n'): the header and the data rows, or the one empty line
\* of an empty payload.
CsvPayloads ==
  {<<Header>> \o rows : rows \in SeqsUpTo(RowPool, MaxRows)} \cup {<< <<>> >>}

\* The brand detector's view of a document.
Pages ==
  [ldBrand         : {None, Some(Nike)},
   h1              : {None, Some(NikeAir)},
   ogTitle         : {None},
   title           : {<<>>},
   ogBrand         : {None, Some(NikeUpper), Some(LevisApostrophe), Some(SpacedDash)},
   semantic        : {<<>>, <<Nikes>>},
   labelValues     : {<<>>},
   breadcrumbItems : {<<>>, <<Home, Levis, Air>>},
   ogSiteName      : {None, Some(LevisApostrophe)},
   hostname        : {<<>>, NikeHost}]

\* Inputs for the candidate sources: hostnames with a one-label and a
\* two-label public suffix and without one, titles that hold a brand as a
\* word, in capitals and inside a longer word, and brand rows of several
\* words and with the sign "|".
LeviHost == <<"l", "e", "v", "i", ".", "c", "o", "m">>
LeviUkHost ==
  <<"w", "w", "w", ".", "l", "e", "v", "i", ".", "c", "o", ".", "u", "k">>
UnderArmourHost ==
  <<"w", "w", "w", ".", "u", "n", "d", "e", "r", "a", "r", "m", "o", "u", "r",
    ".", "c", "o", "m">>
LocalHost == <<"l", "o", "c", "a", "l", "h", "o", "s", "t">>
UnderArmour == <<"U", "n", "d", "e", "r", " ", "A", "r", "m", "o", "u", "r">>
Levi == <<"L", "e", "v", "i">>
ArmaniExchange == <<"A", "|", "X">>
NikeUpperAir == <<"N", "I", "K", "E", " ", "A", "i", "r">>
NikesAir == <<"N", "i", "k", "e", "s", " ", "A", "i", "r">>

CandidateRowPool == {Nike, Levi, UnderArmour, ArmaniExchange}

CandidatePayloads ==
  {<<Header>> \o rows : rows \in SeqsUpTo(CandidateRowPool, MaxRows)}

CandidatePages ==
  [ldBrand         : {None},
   h1              : {None, Some(NikeAir), Some(NikeUpperAir), Some(NikesAir)},
   ogTitle         : {None},
   title           : {<<>>},
   ogBrand         : {None, Some(Air)},
   semantic        : {<<>>},
   labelValues     : {<<>>},
   breadcrumbItems : {<<>>},
   ogSiteName      : {None},
   hostname        : {LeviHost, LeviUkHost, UnderArmourHost, LocalHost}]

\* Inputs for the breadcrumb source: trails of no, one, two and three links
\* whose second-to-last link is a brand, a generic term in several
\* spellings, a text of two or of three characters, or a text with spaces
\* around it.
HomeUpper == <<"H", "O", "M", "E">>
ShopSpaced == <<" ", "S", "h", "o", "p", " ">>
Products == <<"P", "r", "o", "d", "u", "c", "t", "s">>
Hp == <<"H", "P">>
Gap == <<"G", "a", "p">>
LevisSpaced == <<" ", "L", "e", "v", "i", "s", " ">>

BreadcrumbTrails ==
  {<<>>, <<Levis>>, <<Home, Levis>>, <<Levis, Air>>, <<Home, Levis, Air>>,
   <<Levis, HomeUpper, Air>>, <<ShopSpaced, Air>>, <<Products, Air>>,
   <<Hp, Air>>, <<Gap, Air>>, <<LevisSpaced, Air>>, <<Air, Levis, Home>>}

BreadcrumbPayloads == {<<Header, Nike>>, <<Header, Nike, Levis>>}

BreadcrumbPages ==
  [ldBrand         : {None},
   h1              : {None},
   ogTitle         : {None},
   title           : {<<>>},
   ogBrand         : {None},
   semantic        : {<<>>, <<Nikes>>},
   labelValues     : {<<>>},
   breadcrumbItems : BreadcrumbTrails,
   ogSiteName      : {None, Some(Nike)},
   hostname        : {<<>>, NikeHost}]

(***************************************************************************)
(* Inputs of normalizeBrand                                                *)
(***************************************************************************)
\* The length of a string handed to normalizeBrand.
MaxLen == 3
\* The number of calls of normalizeBrand on one value.
MaxCalls == 2

\* An upper-case and a lower-case letter, the stripped symbols, whitespace.
NormAlphabet == {"N", "e"} \cup StrippedSymbols \cup {" ", "\t"}

NormInputs ==
  {StringValue(s) : s \in SeqsUpTo(NormAlphabet, MaxLen)}
    \cup {OtherValue(name) : name \in FalsyNames \cup TruthyNames}

NoNormRun == [state |-> "none", typeof |-> "undefined", value |-> <<>>, calls |-> 0]

(***************************************************************************)
(* The tab: runner.js, background main.js and content_main.js              *)
(***************************************************************************)
\* The URL changes of the tab within one page context.
MaxNavs == 1
\* The RE_DETECT messages sent to the content script.
MaxReDetects == 1

\* haystack.includes(needle)
Includes(haystack, needle) ==
  \E i \in 0..(Len(haystack) - Len(needle)) :
    SubSeq(haystack, i + 1, i + Len(needle)) = needle

ShopHost == <<"s", "h", "o", "p", ".", "c", "o", "m">>
\* The hostname of a special merchant's shop.
StealsHost == <<"w", "w", "w", ".", "s", "t", "e", "a", "l", "s", ".", "c", "o", "m">>

\* Entries of EXCLUDED_DOMAINS (the first of the list and the first search
\* engine; the others are tested in the same way).
EXCLUDED_DOMAINS ==
  {<<"c", "h", "a", "c", "h", "i", "n", "g", ".", "m", "e">>,
   <<"g", "o", "o", "g", "l", "e", ".", "c", "o", "m">>}

\* EXCLUDED_DOMAINS.some(domain => url.hostname.includes(domain))
IsExcluded(hostname) == \E domain \in EXCLUDED_DOMAINS : Includes(hostname, domain)

\* specialMerchants of startDetection
specialMerchants ==
  {<<"s", "t", "e", "a", "l", "s", ".", "c", "o", "m">>,
   <<"b", "e", "a", "c", "h", "c", "a", "m", "e", "r", "a", ".", "c", "o", "m">>,
   <<"v", "i", "d", "e", "o", "s", "h", "o", "p", "s", ".", "c", "o", "m">>,
   <<"s", "a", "l", "o", "n", "h", "q", ".", "c", "o", "m">>,
   <<"p", "e", "d", "a", "l", "e", "l", "e", "c", "t", "r", "i", "c", ".", "c", "o", "m">>}

\* specialMerchants.find(merchant => currentHostname.includes(merchant))
MatchedMerchants(hostname) ==
  {merchant \in specialMerchants : Includes(toLowerCase(hostname), merchant)}

\* The documents of a shop's single-page application, each as the brand
\* detector and as the PDP detector read it.
BrandPage ==
  [ldBrand |-> Some(Nike), h1 |-> Some(NikeAir), ogTitle |-> None,
   title |-> <<>>, ogBrand |-> None, semantic |-> <<>>, labelValues |-> <<>>,
   breadcrumbItems |-> <<>>, ogSiteName |-> None, hostname |-> ShopHost]
PlainPage == [BrandPage EXCEPT !.ldBrand = None, !.h1 = Some(Air)]
PdpDoc ==
  [actionText |-> TRUE, actionAttr |-> FALSE, ldJson |-> <<"product">>,
   facts |-> {"price", "images"}, breadcrumb |-> "none"]
ListingDoc ==
  [actionText |-> FALSE, actionAttr |-> FALSE, ldJson |-> <<>>,
   facts |-> {"price", "images"}, breadcrumb |-> "trail"]
BrokenDoc == [PdpDoc EXCEPT !.breadcrumb = "noInnerText"]

\* A supported brand's product page, the brand's listing page, a product page
\* on which detectBreadcrumbs throws, and a product page of no supported brand.
TabViews ==
  <<[page |-> BrandPage, doc |-> PdpDoc],
    [page |-> BrandPage, doc |-> ListingDoc],
    [page |-> BrandPage, doc |-> BrokenDoc],
    [page |-> PlainPage, doc |-> PdpDoc]>>

\* The brand list packaged with the extension.
TabCsv == <<Header, Nike>>

\* The key of the tab in detectedProducts.
TabId == "tab"

\* Map.prototype.delete
MapDelete(m, k) == SelectSeq(m, LAMBDA entry : entry[1] # k)

\* The brand globals of the page context, as a detection finds them.
Registry(defined, map, array) == [defined |-> defined, map |-> map, array |-> array]

\* detectBrandOnPage in a page context: with the globals never assigned, the
\* first read of SUPPORTED_BRANDS_ARRAY (a title was found) or of
\* SUPPORTED_BRANDS_MAP (a candidate was found) is a ReferenceError.
DetectWith(p, registry) ==
  IF registry.defined
  THEN detectBrandOnPage(p, registry.map, registry.array)
  ELSE IF extractProductTitle(p) # <<>> \/ findAllBrandCandidates(p, <<>>) # <<>>
       THEN [NoBrandRun EXCEPT !.state = "threw"]
       ELSE detectBrandOnPage(p, <<>>, <<>>)

\* Faulty variant: loadBrands() is called without await, the detectors read
\* the globals as they were when the pass began.
RunnerReadsBefore(before, after) == before

\* await window.loadBrands(): the detectors read what the load has left.
RunnerReads(before, after) == after

\* The message runDetection sends: the two results, or the error when a
\* detector threw.
RunnerMessage(brandResult, isPdp) ==
  IF brandResult.state = "threw" \/ isPdp.state = "threw"
  THEN [type |-> "DETECTION_ERROR", brandResult |-> None, isPdp |-> FALSE]
  ELSE [type |-> "DETECTION_COMPLETE", brandResult |-> brandResult.result,
        isPdp |-> isPdp.ret]

\* Faulty variant: the isPdp test is missing (the behaviour before 2.2.0).
ActionableBrandOnly(data) ==
  data.brandResult # None /\ data.brandResult[1].isSupported

\* brandResult && brandResult.isSupported && isPdp
Actionable(data) ==
  data.brandResult # None /\ data.brandResult[1].isSupported /\ data.isPdp

\* The entry handleDetectionComplete stores for the popup.
DetectionEntry(data) ==
  [isSupported |-> data.brandResult[1].isSupported,
   productInfo |-> data.brandResult[1].productInfo,
   isPdp |-> data.isPdp]

\* The content script before content_main.js has run, and as its constructor
\* leaves it with init() waiting for loadBrands.
NoContentScript ==
  [pc |-> "absent", detectionResult |-> None, notificationShown |-> FALSE,
   autoShow |-> TRUE, lastUrl |-> 0]
ConstructedContentScript == [NoContentScript EXCEPT !.pc = "awaitLoad"]

NoTimers == [start |-> 0, first |-> 0, retry |-> 0]
NoInjections == [insertCSS |-> 0, executeScript |-> 0]
NoListeners == [tabsGet |-> 0, executeScript |-> 0]

\* const fifteenMinutes = 15 * 60 * 1000
fifteenMinutes == 15 * 60 * 1000

\* Date.prototype.toISOString: the time as the fields of the date string,
\* the minutes counted from the start of the clock.
toISOString(time) ==
  [minute |-> time \div 60000, second |-> (time % 60000) \div 1000,
   millisecond |-> time % 1000]

\* new Date(timestamp).getTime(): the milliseconds of a date string.
getTime(timestamp) ==
  timestamp.minute * 60000 + timestamp.second * 1000 + timestamp.millisecond

\* The instants at which the clock is read: the start, and the times just
\* before, at and after the end of the 15 minutes.
Instants == {0, 1, fifteenMinutes - 1, fifteenMinutes, fifteenMinutes + 1}

\* chrome.storage.local without a dismissal record.
NoDismissals == [url \in 1..Len(TabViews) |-> None]

\* The test of showNotification on the record getStorageData resolved with.
DismissedRecently(dismissalData, currentTime) ==
  /\ dismissalData # None
  /\ currentTime - getTime(dismissalData[1].timestamp) < fifteenMinutes

\* The hostname of a page on the exclusion list.
GoogleHost == <<"w", "w", "w", ".", "g", "o", "o", "g", "l", "e", ".", "c", "o", "m">>

\* The pages a tab may load: a supported brand's product page and its listing
\* page on a shop, and a page of an excluded domain.
LoadedPages ==
  <<[page |-> BrandPage, doc |-> PdpDoc],
    [page |-> BrandPage, doc |-> ListingDoc],
    [page |-> [BrandPage EXCEPT !.hostname = GoogleHost], doc |-> PdpDoc]>>

\* The tabs.onUpdated events of one page load, by the changeInfo they carry:
\* the URL, then other changes, then status 'complete'; a browser that sends
\* the URL only, or the status only.
LoadEvents ==
  {<<"url", "title", "complete">>, <<"url">>, <<"complete">>}

\* The detectionResult of a special merchant.
SpecialMerchantResult(merchant) ==
  [isSupported |-> TRUE, isSpecialMerchant |-> TRUE,
   productInfo |->
     [brand |-> merchant,
      title |-> <<"U", "p", " ", "t", "o", " ", "3", "3", "%", " ", "c", "a",
                  "s", "h", " ", "b", "a", "c", "k", " ", "a", "t", " ">>
                  \o merchant,
      cashback |-> StaticCashback]]

\* Faulty variant: a retry that finds nothing schedules a retry again.
DetectPageRetriesAgain(isRetry, run, hostname, script, pending, shows) ==
  LET matched == MatchedMerchants(hostname)
      supported == run.result # None /\ run.result[1].isSupported
      result == IF supported THEN run.result
                ELSE IF matched # {}
                     THEN Some(SpecialMerchantResult(CHOOSE m \in matched : TRUE))
                     ELSE run.result
      calls == script.autoShow /\ ~script.notificationShown
      awaits == calls /\ result[1].productInfo.title # <<>>
  IN  IF run.state = "threw"
      THEN [cs |-> script, timers |-> pending, showPending |-> shows]
      ELSE IF supported \/ matched # {}
           THEN [cs |-> [script EXCEPT !.detectionResult = result],
                 timers |-> pending,
                 showPending |-> IF awaits THEN shows + 1 ELSE shows]
           ELSE [cs |-> [script EXCEPT !.detectionResult = result],
                 timers |-> [pending EXCEPT !.retry = @ + 1],
                 showPending |-> shows]

\* Faulty variant: every evaluation of content_main.js constructs an instance.
ConstructAlways(script) == ConstructedContentScript

\* The last statement of content_main.js: an instance is constructed unless
\* window.chachingContentScript holds one.
InitializeContentScript(script) ==
  IF script.pc = "absent" THEN ConstructedContentScript ELSE script

\* detectPage(isRetry) once detectBrandOnPage has made the run `run`: what it
\* leaves of the content script, of its timers and of the pending
\* showNotification calls.  showNotification returns at once when a
\* notification was shown or the result has no title.
DetectPage(isRetry, run, hostname, script, pending, shows) ==
  LET matched == MatchedMerchants(hostname)
      supported == run.result # None /\ run.result[1].isSupported
      result == IF supported THEN run.result
                ELSE IF matched # {}
                     THEN Some(SpecialMerchantResult(CHOOSE m \in matched : TRUE))
                     ELSE run.result
      calls == script.autoShow /\ ~script.notificationShown
      awaits == calls /\ result[1].productInfo.title # <<>>
  IN  IF run.state = "threw"
      THEN [cs |-> script, timers |-> pending, showPending |-> shows]
      ELSE IF supported \/ matched # {}
           THEN [cs |-> [script EXCEPT !.detectionResult = result],
                 timers |-> pending,
                 showPending |-> IF awaits THEN shows + 1 ELSE shows]
           ELSE [cs |-> [script EXCEPT !.detectionResult = result],
                 timers |-> IF isRetry THEN pending
                            ELSE [pending EXCEPT !.retry = @ + 1],
                 showPending |-> shows]

(***************************************************************************)
(* The state machines: one per component.  Each leaves the other           *)
(* component's variables at rest.                                          *)
(***************************************************************************)
PdpAtRest ==
  /\ doc = [actionText |-> FALSE, actionAttr |-> FALSE, ldJson |-> <<>>,
            facts |-> {}, breadcrumb |-> "none"]
  /\ pdp = NoRun
  /\ dbg = NoDebug

BrandAtRest ==
  /\ csvLines = <<Header>>
  /\ brandsLoaded = FALSE
  /\ lastLoad = "none"
  /\ SUPPORTED_BRANDS_MAP = <<>>
  /\ SUPPORTED_BRANDS_ARRAY = <<>>
  /\ page = [ldBrand |-> None, h1 |-> None, ogTitle |-> None, title |-> <<>>,
             ogBrand |-> None, semantic |-> <<>>, labelValues |-> <<>>,
             breadcrumbItems |-> <<>>, ogSiteName |-> None, hostname |-> <<>>]
  /\ brandRun = NoBrandRun

NormAtRest ==
  /\ normInput = StringValue(<<>>)
  /\ normRun = NoNormRun

BackgroundAtRest ==
  /\ tabOpen = TRUE
  /\ tabEvents = <<>>
  /\ listeners = NoListeners
  /\ injectedHere = 0

\* No dismissal stored, no showNotification call waiting, the clock at 0.
DismissalAtRest ==
  /\ clock = 0
  /\ storage = NoDismissals
  /\ showCalls = <<>>
  /\ dismissals = NoDismissals

TabAtRest ==
  /\ BackgroundAtRest
  /\ DismissalAtRest
  /\ href = 1
  /\ navs = 0
  /\ reDetects = 0
  /\ runnerAwaiting = 0
  /\ messages = <<>>
  /\ detectedProducts = <<>>
  /\ uiInjections = NoInjections
  /\ cs = NoContentScript
  /\ timers = NoTimers
  /\ showPending = 0
  /\ notifications = <<>>

\* The PDP scorer: a document, and the two operations a caller may run on it.
InitPdp ==
  /\ doc \in Docs
  /\ pdp = NoRun
  /\ dbg = NoDebug
  /\ BrandAtRest
  /\ NormAtRest
  /\ TabAtRest

IsProductPage ==
  /\ pdp' = isProductPage(doc)
  /\ UNCHANGED <<doc, dbg>>
  /\ UNCHANGED outsidePdp

DebugDetection ==
  /\ dbg' = debugDetection(doc)
  /\ UNCHANGED <<doc, pdp>>
  /\ UNCHANGED outsidePdp

NextPdp == IsProductPage \/ DebugDetection

SpecPdp == InitPdp /\ [][NextPdp]_vars

\* The brand detector: a brand list and a document; loadBrands, which both
\* callers await before they detect, and detectBrandOnPage.
InitBrand ==
  /\ csvLines \in CsvPayloads
  /\ brandsLoaded = FALSE
  /\ lastLoad = "none"
  /\ SUPPORTED_BRANDS_MAP = <<>>
  /\ SUPPORTED_BRANDS_ARRAY = <<>>
  /\ page \in Pages
  /\ brandRun = NoBrandRun
  /\ PdpAtRest
  /\ NormAtRest
  /\ TabAtRest

\* loadBrands, the try block running to its end.
LoadBrands ==
  /\ SUPPORTED_BRANDS_MAP' = BuildBrandsMap(csvLines)
  /\ SUPPORTED_BRANDS_ARRAY' = MapKeys(BuildBrandsMap(csvLines))
  /\ brandsLoaded' = TRUE
  /\ lastLoad' = "resolved"
  /\ UNCHANGED <<csvLines, page, brandRun>>
  /\ UNCHANGED outsideBrand

\* loadBrands, with fetch or response.text() rejecting: the catch block.
LoadBrandsFailed ==
  /\ SUPPORTED_BRANDS_MAP' = RegistryAfterFailure(SUPPORTED_BRANDS_MAP)
  /\ SUPPORTED_BRANDS_ARRAY' = RegistryAfterFailure(SUPPORTED_BRANDS_ARRAY)
  /\ brandsLoaded' = TRUE
  /\ lastLoad' = "rejected"
  /\ UNCHANGED <<csvLines, page, brandRun>>
  /\ UNCHANGED outsideBrand

DetectBrandOnPage ==
  /\ brandsLoaded
  /\ brandRun' = detectBrandOnPage(page, SUPPORTED_BRANDS_MAP, SUPPORTED_BRANDS_ARRAY)
  /\ UNCHANGED <<csvLines, brandsLoaded, lastLoad, SUPPORTED_BRANDS_MAP,
                 SUPPORTED_BRANDS_ARRAY, page>>
  /\ UNCHANGED outsideBrand

NextBrand == LoadBrands \/ LoadBrandsFailed \/ DetectBrandOnPage

SpecBrand == InitBrand /\ [][NextBrand]_vars

\* The brand detector on the inputs for the candidate sources.
InitCandidates ==
  /\ csvLines \in CandidatePayloads
  /\ brandsLoaded = FALSE
  /\ lastLoad = "none"
  /\ SUPPORTED_BRANDS_MAP = <<>>
  /\ SUPPORTED_BRANDS_ARRAY = <<>>
  /\ page \in CandidatePages
  /\ brandRun = NoBrandRun
  /\ PdpAtRest
  /\ NormAtRest
  /\ TabAtRest

SpecCandidates == InitCandidates /\ [][NextBrand]_vars

\* The brand detector on the inputs for the breadcrumb source.
InitBreadcrumbs ==
  /\ csvLines \in BreadcrumbPayloads
  /\ brandsLoaded = FALSE
  /\ lastLoad = "none"
  /\ SUPPORTED_BRANDS_MAP = <<>>
  /\ SUPPORTED_BRANDS_ARRAY = <<>>
  /\ page \in BreadcrumbPages
  /\ brandRun = NoBrandRun
  /\ PdpAtRest
  /\ NormAtRest
  /\ TabAtRest

SpecBreadcrumbs == InitBreadcrumbs /\ [][NextBrand]_vars

\* normalizeBrand: a value, and calls of the function on it.
InitNorm ==
  /\ normInput \in NormInputs
  /\ normRun = NoNormRun
  /\ PdpAtRest
  /\ BrandAtRest
  /\ TabAtRest

NormalizeBrand ==
  /\ normRun.calls < MaxCalls
  /\ LET out == normalizeBrandAny(normInput)
     IN  normRun' = [state |-> out.state, typeof |-> out.typeof,
                     value |-> out.value, calls |-> normRun.calls + 1]
  /\ UNCHANGED normInput
  /\ UNCHANGED outsideNorm

NextNorm == NormalizeBrand

SpecNorm == InitNorm /\ [][NextNorm]_vars

(***************************************************************************)
(* The tab's state machine: one page context of a single-page application, *)
(* the background's bookkeeping for the tab, and the content script.       *)
(***************************************************************************)
\* The page has loaded and the background has injected the detection scripts:
\* runDetection has called loadBrands and waits for it.
InitTab ==
  /\ href \in 1..Len(TabViews)
  /\ page = TabViews[href].page
  /\ doc = TabViews[href].doc
  /\ pdp = NoRun
  /\ dbg = NoDebug
  /\ csvLines = TabCsv
  /\ brandsLoaded = FALSE
  /\ lastLoad = "none"
  /\ SUPPORTED_BRANDS_MAP = <<>>
  /\ SUPPORTED_BRANDS_ARRAY = <<>>
  /\ brandRun = NoBrandRun
  /\ navs = 0
  /\ reDetects = 0
  /\ runnerAwaiting = 1
  /\ messages = <<>>
  /\ detectedProducts = <<>>
  /\ uiInjections = NoInjections
  /\ cs = NoContentScript
  /\ timers = NoTimers
  /\ showPending = 0
  /\ notifications = <<>>
  /\ NormAtRest
  /\ BackgroundAtRest
  /\ DismissalAtRest

\* The brand globals as they are, and assigning what a load has left.
CurrentRegistry ==
  Registry(brandsLoaded, SUPPORTED_BRANDS_MAP, SUPPORTED_BRANDS_ARRAY)

\* loadBrands running to its end, in the try block (ok) or in the catch block.
AssignRegistry(ok) ==
  /\ brandsLoaded' = TRUE
  /\ SUPPORTED_BRANDS_MAP' =
       IF ok THEN BuildBrandsMap(csvLines)
       ELSE RegistryAfterFailure(SUPPORTED_BRANDS_MAP)
  /\ SUPPORTED_BRANDS_ARRAY' =
       IF ok THEN MapKeys(SUPPORTED_BRANDS_MAP')
       ELSE RegistryAfterFailure(SUPPORTED_BRANDS_ARRAY)
  /\ lastLoad' = IF ok THEN "resolved" ELSE "rejected"

\* The brand globals once the load of this step has ended.
LoadedRegistry ==
  Registry(brandsLoaded', SUPPORTED_BRANDS_MAP', SUPPORTED_BRANDS_ARRAY')

\* The single-page application changes the URL; chrome.tabs.onUpdated fires
\* with changeInfo.url and its listener injects the detection scripts unless
\* the host is excluded or the injection is rejected.
TabsOnUpdated ==
  /\ navs < MaxNavs
  /\ navs' = navs + 1
  /\ \E next \in 1..Len(TabViews) \ {href}, injected \in BOOLEAN :
       /\ href' = next
       /\ page' = TabViews[next].page
       /\ doc' = TabViews[next].doc
       /\ runnerAwaiting' =
            IF injected /\ ~IsExcluded(TabViews[next].page.hostname)
            THEN runnerAwaiting + 1
            ELSE runnerAwaiting
  /\ UNCHANGED <<pdp, csvLines, brandsLoaded, lastLoad, SUPPORTED_BRANDS_MAP,
                 SUPPORTED_BRANDS_ARRAY, brandRun, reDetects, messages,
                 detectedProducts, uiInjections, cs, timers, showPending,
                 notifications>>
  /\ UNCHANGED outsideTab

\* runDetection resumes: loadBrands has ended, the detectors run and the
\* result or the error is sent to the background.
RunnerResume ==
  /\ runnerAwaiting > 0
  /\ runnerAwaiting' = runnerAwaiting - 1
  /\ \E ok \in BOOLEAN : AssignRegistry(ok)
  /\ brandRun' = DetectWith(page, RunnerReads(CurrentRegistry, LoadedRegistry))
  /\ pdp' = IF brandRun'.state = "threw" THEN pdp ELSE isProductPage(doc)
  /\ messages' = Append(messages, RunnerMessage(brandRun', pdp'))
  /\ UNCHANGED <<doc, csvLines, page, href, navs, reDetects, detectedProducts,
                 uiInjections, cs, timers, showPending, notifications>>
  /\ UNCHANGED outsideTab

\* chrome.runtime.onMessage of the background, with the synchronous part of
\* handleDetectionComplete; DETECTION_ERROR is logged.
BackgroundOnMessage ==
  /\ messages # <<>>
  /\ messages' = Tail(messages)
  /\ LET request == Head(messages)
     IN  IF request.type = "DETECTION_COMPLETE"
         THEN IF Actionable(request)
              THEN /\ detectedProducts' =
                        MapSet(detectedProducts, TabId, DetectionEntry(request))
                   /\ uiInjections' = [uiInjections EXCEPT !.insertCSS = @ + 1]
              ELSE /\ detectedProducts' = MapDelete(detectedProducts, TabId)
                   /\ UNCHANGED uiInjections
         ELSE UNCHANGED <<detectedProducts, uiInjections>>
  /\ UNCHANGED <<doc, pdp, brandVars, href, navs, reDetects, runnerAwaiting,
                 cs, timers, showPending, notifications>>
  /\ UNCHANGED outsideTab

\* chrome.scripting.insertCSS resolves: handleDetectionComplete goes on to
\* executeScript.
InsertCssDone ==
  /\ uiInjections.insertCSS > 0
  /\ uiInjections' = [uiInjections EXCEPT !.insertCSS = @ - 1,
                                          !.executeScript = @ + 1]
  /\ UNCHANGED <<doc, pdp, brandVars, href, navs, reDetects, runnerAwaiting,
                 messages, detectedProducts, cs, timers, showPending,
                 notifications>>
  /\ UNCHANGED outsideTab

\* content_main.js runs in the page: the first time it constructs the content
\* script, whose init() calls loadBrands.
ExecuteScriptDone ==
  /\ uiInjections.executeScript > 0
  /\ uiInjections' = [uiInjections EXCEPT !.executeScript = @ - 1]
  /\ cs' = InitializeContentScript(cs)
  /\ UNCHANGED <<doc, pdp, brandVars, href, navs, reDetects, runnerAwaiting,
                 messages, detectedProducts, timers, showPending, notifications>>
  /\ UNCHANGED outsideTab

\* insertCSS or executeScript rejects: the catch of handleDetectionComplete.
InjectionRejected ==
  /\ \E stage \in {"insertCSS", "executeScript"} :
       /\ uiInjections[stage] > 0
       /\ uiInjections' = [uiInjections EXCEPT ![stage] = @ - 1]
  /\ UNCHANGED <<doc, pdp, brandVars, href, navs, reDetects, runnerAwaiting,
                 messages, detectedProducts, cs, timers, showPending,
                 notifications>>
  /\ UNCHANGED outsideTab

\* init() resumes after await window.loadBrands() and asks for the preferences.
CsLoadDone ==
  /\ cs.pc = "awaitLoad"
  /\ cs' = [cs EXCEPT !.pc = "awaitPrefs"]
  /\ \E ok \in BOOLEAN : AssignRegistry(ok)
  /\ UNCHANGED <<doc, pdp, csvLines, page, brandRun, href, navs, reDetects,
                 runnerAwaiting, messages, detectedProducts, uiInjections,
                 timers, showPending, notifications>>
  /\ UNCHANGED outsideTab

\* init() resumes with the preferences: it stops when the extension is
\* disabled here, else it starts detection and the URL observer.
CsPrefsLoaded ==
  /\ cs.pc = "awaitPrefs"
  /\ \E enabled \in BOOLEAN, autoShow \in BOOLEAN :
       IF enabled
       THEN /\ cs' = [cs EXCEPT !.pc = "running", !.autoShow = autoShow,
                                !.lastUrl = href]
            /\ timers' = [timers EXCEPT !.first = @ + 1]
       ELSE /\ cs' = [cs EXCEPT !.pc = "stopped", !.autoShow = autoShow]
            /\ UNCHANGED timers
  /\ UNCHANGED <<doc, pdp, brandVars, href, navs, reDetects, runnerAwaiting,
                 messages, detectedProducts, uiInjections, showPending,
                 notifications>>
  /\ UNCHANGED outsideTab

\* The debounce timer of startDetection fires: detectPage(false).
CsFirstTimer ==
  /\ timers.first > 0
  /\ brandRun' = DetectWith(page, CurrentRegistry)
  /\ LET after == DetectPage(FALSE, brandRun', page.hostname, cs,
                             [timers EXCEPT !.first = @ - 1], showPending)
     IN  /\ cs' = after.cs
         /\ timers' = after.timers
         /\ showPending' = after.showPending
  /\ UNCHANGED <<doc, pdp, csvLines, brandsLoaded, lastLoad,
                 SUPPORTED_BRANDS_MAP, SUPPORTED_BRANDS_ARRAY, page, href, navs,
                 reDetects, runnerAwaiting, messages, detectedProducts,
                 uiInjections, notifications>>
  /\ UNCHANGED outsideTab

\* The 3-second timer fires: detectPage(true).
CsRetryTimer ==
  /\ timers.retry > 0
  /\ brandRun' = DetectWith(page, CurrentRegistry)
  /\ LET after == DetectPage(TRUE, brandRun', page.hostname, cs,
                             [timers EXCEPT !.retry = @ - 1], showPending)
     IN  /\ cs' = after.cs
         /\ timers' = after.timers
         /\ showPending' = after.showPending
  /\ UNCHANGED <<doc, pdp, csvLines, brandsLoaded, lastLoad,
                 SUPPORTED_BRANDS_MAP, SUPPORTED_BRANDS_ARRAY, page, href, navs,
                 reDetects, runnerAwaiting, messages, detectedProducts,
                 uiInjections, notifications>>
  /\ UNCHANGED outsideTab

\* showNotification resumes with the dismissal record of this URL: it
\* returns when the dismissal is recent, else it appends the notification.
CsShowResume ==
  /\ showPending > 0
  /\ showPending' = showPending - 1
  /\ \E dismissedRecently \in BOOLEAN :
       IF dismissedRecently
       THEN UNCHANGED <<cs, notifications>>
       ELSE /\ notifications' = Append(notifications, [href |-> href])
            /\ cs' = [cs EXCEPT !.notificationShown = TRUE]
  /\ UNCHANGED <<doc, pdp, brandVars, href, navs, reDetects, runnerAwaiting,
                 messages, detectedProducts, uiInjections, timers>>
  /\ UNCHANGED outsideTab

\* Faulty variant: the new URL is remembered, the state of the old view kept.
RememberUrlOnly(script, currentUrl) == [script EXCEPT !.lastUrl = currentUrl]

\* lastUrl = currentUrl and the reset of the state for the new view.
ResetForUrl(script, currentUrl) ==
  [script EXCEPT !.lastUrl = currentUrl, !.notificationShown = FALSE,
                 !.detectionResult = None]

\* The interval of observeUrlChanges finds a new URL.
CsUrlPoll ==
  /\ cs.pc = "running"
  /\ href # cs.lastUrl
  /\ cs' = ResetForUrl(cs, href)
  /\ notifications' = <<>>
  /\ timers' = [timers EXCEPT !.start = @ + 1]
  /\ UNCHANGED <<doc, pdp, brandVars, href, navs, reDetects, runnerAwaiting,
                 messages, detectedProducts, uiInjections, showPending>>
  /\ UNCHANGED outsideTab

\* The 1-second timer of observeUrlChanges fires: startDetection().
CsStartTimer ==
  /\ timers.start > 0
  /\ timers' = [timers EXCEPT !.start = @ - 1, !.first = @ + 1]
  /\ UNCHANGED <<doc, pdp, brandVars, href, navs, reDetects, runnerAwaiting,
                 messages, detectedProducts, uiInjections, cs, showPending,
                 notifications>>
  /\ UNCHANGED outsideTab

\* handleMessage: RE_DETECT resets the flag and starts detection;
\* SHOW_NOTIFICATION tests detectionResult.isProductPage, which no detection
\* result has, and shows nothing.
CsHandleMessage ==
  /\ cs.pc = "running"
  /\ reDetects < MaxReDetects
  /\ reDetects' = reDetects + 1
  /\ \E type \in {"RE_DETECT", "SHOW_NOTIFICATION"} :
       IF type = "RE_DETECT"
       THEN /\ cs' = [cs EXCEPT !.notificationShown = FALSE]
            /\ timers' = [timers EXCEPT !.first = @ + 1]
       ELSE UNCHANGED <<cs, timers>>
  /\ UNCHANGED <<doc, pdp, brandVars, href, navs, runnerAwaiting, messages,
                 detectedProducts, uiInjections, showPending, notifications>>
  /\ UNCHANGED outsideTab

NextTab ==
  \/ TabsOnUpdated
  \/ RunnerResume
  \/ BackgroundOnMessage
  \/ InsertCssDone
  \/ ExecuteScriptDone
  \/ InjectionRejected
  \/ CsLoadDone
  \/ CsPrefsLoaded
  \/ CsFirstTimer
  \/ CsRetryTimer
  \/ CsShowResume
  \/ CsUrlPoll
  \/ CsStartTimer
  \/ CsHandleMessage

SpecTab == InitTab /\ [][NextTab]_vars

\* One view of a tab, on a shop's or on a special merchant's hostname: the
\* detection pass, the injection of the UI and the content script with its
\* timers and messages, the URL staying as it is.
InitPageView ==
  /\ href \in 1..Len(TabViews)
  /\ \E hostname \in {ShopHost, StealsHost} :
       page = [TabViews[href].page EXCEPT !.hostname = hostname]
  /\ doc = TabViews[href].doc
  /\ pdp = NoRun
  /\ dbg = NoDebug
  /\ csvLines = TabCsv
  /\ brandsLoaded = FALSE
  /\ lastLoad = "none"
  /\ SUPPORTED_BRANDS_MAP = <<>>
  /\ SUPPORTED_BRANDS_ARRAY = <<>>
  /\ brandRun = NoBrandRun
  /\ navs = 0
  /\ reDetects = 0
  /\ runnerAwaiting = 1
  /\ messages = <<>>
  /\ detectedProducts = <<>>
  /\ uiInjections = NoInjections
  /\ cs = NoContentScript
  /\ timers = NoTimers
  /\ showPending = 0
  /\ notifications = <<>>
  /\ NormAtRest
  /\ BackgroundAtRest
  /\ DismissalAtRest

NextPageView ==
  \/ RunnerResume
  \/ BackgroundOnMessage
  \/ InsertCssDone
  \/ ExecuteScriptDone
  \/ InjectionRejected
  \/ CsLoadDone
  \/ CsPrefsLoaded
  \/ CsFirstTimer
  \/ CsRetryTimer
  \/ CsShowResume
  \/ CsHandleMessage

SpecPageView == InitPageView /\ [][NextPageView]_vars

\* The background and one tab through page loads and the closing of the tab.
\* A page load starts a new page context: the scripts, timers and globals of
\* the old page are gone, the messages it sent are still on their way.
InitBackground ==
  /\ href \in 1..Len(LoadedPages)
  /\ page = LoadedPages[href].page
  /\ doc = LoadedPages[href].doc
  /\ tabEvents \in LoadEvents
  /\ tabOpen = TRUE
  /\ listeners = NoListeners
  /\ injectedHere = 0
  /\ pdp = NoRun
  /\ dbg = NoDebug
  /\ csvLines = TabCsv
  /\ brandsLoaded = FALSE
  /\ lastLoad = "none"
  /\ SUPPORTED_BRANDS_MAP = <<>>
  /\ SUPPORTED_BRANDS_ARRAY = <<>>
  /\ brandRun = NoBrandRun
  /\ navs = 0
  /\ reDetects = 0
  /\ runnerAwaiting = 0
  /\ messages = <<>>
  /\ detectedProducts = <<>>
  /\ uiInjections = NoInjections
  /\ cs = NoContentScript
  /\ timers = NoTimers
  /\ showPending = 0
  /\ notifications = <<>>
  /\ NormAtRest
  /\ DismissalAtRest

\* The tab loads another page; the browser queues the events of the load.
PageLoad ==
  /\ tabOpen
  /\ navs < MaxNavs
  /\ navs' = navs + 1
  /\ \E next \in 1..Len(LoadedPages) \ {href}, delivered \in LoadEvents :
       /\ href' = next
       /\ page' = LoadedPages[next].page
       /\ doc' = LoadedPages[next].doc
       /\ tabEvents' = tabEvents \o delivered
  /\ injectedHere' = 0
  /\ runnerAwaiting' = 0
  /\ brandsLoaded' = FALSE
  /\ lastLoad' = "none"
  /\ SUPPORTED_BRANDS_MAP' = <<>>
  /\ SUPPORTED_BRANDS_ARRAY' = <<>>
  /\ cs' = NoContentScript
  /\ UNCHANGED <<dismissalVars, pdp, dbg, csvLines, brandRun, reDetects, messages,
                 detectedProducts, uiInjections, timers, showPending,
                 notifications, tabOpen, listeners, normVars>>

\* The user closes the tab; the browser queues tabs.onRemoved.
TabClose ==
  /\ tabOpen
  /\ tabOpen' = FALSE
  /\ tabEvents' = Append(tabEvents, "removed")
  /\ runnerAwaiting' = 0
  /\ cs' = NoContentScript
  /\ UNCHANGED <<dismissalVars, doc, pdp, dbg, brandVars, href, navs, reDetects, messages,
                 detectedProducts, uiInjections, timers, showPending,
                 notifications, listeners, injectedHere, normVars>>

\* chrome.tabs.onUpdated listener, up to await chrome.tabs.get(tabId): it
\* returns when changeInfo has neither status 'complete' nor a url.
OnUpdated ==
  /\ tabEvents # <<>>
  /\ Head(tabEvents) # "removed"
  /\ tabEvents' = Tail(tabEvents)
  /\ listeners' = IF Head(tabEvents) \in {"url", "complete"}
                  THEN [listeners EXCEPT !.tabsGet = @ + 1]
                  ELSE listeners
  /\ UNCHANGED <<dismissalVars, pdpVars, brandVars, normVars, tabVars, tabOpen, injectedHere>>

\* chrome.tabs.get resolves with the tab as it is now, or rejects for a tab
\* that is gone: the listener returns on an excluded hostname and in the
\* catch, else it calls chrome.scripting.executeScript.
TabsGetDone ==
  /\ listeners.tabsGet > 0
  /\ listeners' =
       IF tabOpen /\ ~IsExcluded(page.hostname)
       THEN [listeners EXCEPT !.tabsGet = @ - 1, !.executeScript = @ + 1]
       ELSE [listeners EXCEPT !.tabsGet = @ - 1]
  /\ UNCHANGED <<dismissalVars, pdpVars, brandVars, normVars, tabVars, tabOpen, tabEvents,
                 injectedHere>>

\* executeScript of the detection scripts ends: it rejects, or utils.js,
\* brands.js, the detectors and runner.js run in the page the tab shows now
\* and runDetection starts.
DetectionScriptsDone ==
  /\ listeners.executeScript > 0
  /\ listeners' = [listeners EXCEPT !.executeScript = @ - 1]
  /\ \E resolved \in BOOLEAN :
       IF resolved /\ tabOpen
       THEN /\ injectedHere' = injectedHere + 1
            /\ runnerAwaiting' = runnerAwaiting + 1
       ELSE UNCHANGED <<dismissalVars, injectedHere, runnerAwaiting>>
  /\ UNCHANGED <<dismissalVars, pdpVars, brandVars, normVars, href, navs, reDetects, messages,
                 detectedProducts, uiInjections, cs, timers, showPending,
                 notifications, tabOpen, tabEvents>>

\* chrome.tabs.onRemoved listener
OnRemoved ==
  /\ tabEvents # <<>>
  /\ Head(tabEvents) = "removed"
  /\ tabEvents' = Tail(tabEvents)
  /\ detectedProducts' = MapDelete(detectedProducts, TabId)
  /\ UNCHANGED <<dismissalVars, pdpVars, brandVars, normVars, href, navs, reDetects,
                 runnerAwaiting, messages, uiInjections, cs, timers,
                 showPending, notifications, tabOpen, listeners, injectedHere>>

\* The steps of the page and of chrome.scripting that need the tab.
RunnerResumeInTab == tabOpen /\ RunnerResume
InsertCssDoneInTab == tabOpen /\ InsertCssDone
ExecuteScriptDoneInTab == tabOpen /\ ExecuteScriptDone

NextBackground ==
  \/ PageLoad
  \/ TabClose
  \/ OnUpdated
  \/ TabsGetDone
  \/ DetectionScriptsDone
  \/ OnRemoved
  \/ RunnerResumeInTab
  \/ BackgroundOnMessage
  \/ InsertCssDoneInTab
  \/ ExecuteScriptDoneInTab
  \/ InjectionRejected

SpecBackground == InitBackground /\ [][NextBackground]_vars

\* The content script and the stored dismissals: the script runs in a single-
\* page application that moves between the pages of a supported brand, the
\* user dismisses notifications, the popup asks for re-detection and time
\* passes.  chrome.storage.local answers requests in the order they are made:
\* a get resolves with the record as it was when showNotification asked.
DismissalViews == {1, 2}

InitDismissal ==
  /\ href \in DismissalViews
  /\ page = TabViews[href].page
  /\ doc = TabViews[href].doc
  /\ pdp = NoRun
  /\ dbg = NoDebug
  /\ csvLines = TabCsv
  /\ brandsLoaded = TRUE
  /\ lastLoad = "resolved"
  /\ SUPPORTED_BRANDS_MAP = BuildBrandsMap(TabCsv)
  /\ SUPPORTED_BRANDS_ARRAY = MapKeys(BuildBrandsMap(TabCsv))
  /\ brandRun = NoBrandRun
  /\ navs = 0
  /\ reDetects = 0
  /\ runnerAwaiting = 0
  /\ messages = <<>>
  /\ detectedProducts = <<>>
  /\ uiInjections = NoInjections
  /\ cs = [ConstructedContentScript EXCEPT !.pc = "running", !.lastUrl = href]
  /\ timers = [NoTimers EXCEPT !.first = 1]
  /\ showPending = 0
  /\ notifications = <<>>
  /\ NormAtRest
  /\ BackgroundAtRest
  /\ DismissalAtRest

\* The single-page application changes the URL (history.pushState).
UrlChange ==
  /\ navs < MaxNavs
  /\ navs' = navs + 1
  /\ \E next \in DismissalViews \ {href} :
       /\ href' = next
       /\ page' = TabViews[next].page
       /\ doc' = TabViews[next].doc
  /\ UNCHANGED <<pdp, csvLines, brandsLoaded, lastLoad, SUPPORTED_BRANDS_MAP,
                 SUPPORTED_BRANDS_ARRAY, brandRun, reDetects, runnerAwaiting,
                 messages, detectedProducts, uiInjections, cs, timers,
                 showPending, notifications>>
  /\ UNCHANGED outsideTab

\* The debounce timer fires: detectPage(false), and showNotification up to
\* its await: the key is made from window.location.href and the record is
\* asked for.
DetectAndShow ==
  /\ timers.first > 0
  /\ brandRun' = DetectWith(page, CurrentRegistry)
  /\ LET after == DetectPage(FALSE, brandRun', page.hostname, cs,
                             [timers EXCEPT !.first = @ - 1], 0)
     IN  /\ cs' = after.cs
         /\ timers' = after.timers
         /\ showCalls' =
              IF after.showPending > 0
              THEN Append(showCalls, [key |-> href, data |-> storage[href]])
              ELSE showCalls
  /\ UNCHANGED <<doc, pdp, csvLines, brandsLoaded, lastLoad,
                 SUPPORTED_BRANDS_MAP, SUPPORTED_BRANDS_ARRAY, page, href, navs,
                 reDetects, runnerAwaiting, messages, detectedProducts,
                 uiInjections, showPending, notifications>>
  /\ UNCHANGED <<dbg, normVars, backgroundVars, clock, storage, dismissals>>

\* showNotification resumes with the record: it returns when the dismissal
\* is less than 15 minutes old, else it appends the notification and sets
\* notificationShown.
ShowNotificationResume ==
  /\ showCalls # <<>>
  /\ showCalls' = Tail(showCalls)
  /\ IF DismissedRecently(Head(showCalls).data, clock)
     THEN UNCHANGED <<cs, notifications>>
     ELSE /\ notifications' = Append(notifications, [href |-> href])
          /\ cs' = [cs EXCEPT !.notificationShown = TRUE]
  /\ UNCHANGED <<doc, pdp, brandVars, href, navs, reDetects, runnerAwaiting,
                 messages, detectedProducts, uiInjections, timers, showPending>>
  /\ UNCHANGED <<dbg, normVars, backgroundVars, clock, storage, dismissals>>

\* The user clicks the close or the search button of a notification:
\* saveDismissalTime stores the time under the key of the current URL and
\* hideNotification removes the element.
DismissClick ==
  /\ notifications # <<>>
  /\ \E i \in 1..Len(notifications) :
       notifications' =
         SubSeq(notifications, 1, i - 1) \o SubSeq(notifications, i + 1, Len(notifications))
  /\ storage' = [storage EXCEPT ![href] = Some([timestamp |-> toISOString(clock)])]
  /\ dismissals' = [dismissals EXCEPT ![href] = Some(clock)]
  /\ UNCHANGED <<doc, pdp, brandVars, href, navs, reDetects, runnerAwaiting,
                 messages, detectedProducts, uiInjections, cs, timers,
                 showPending>>
  /\ UNCHANGED <<dbg, normVars, backgroundVars, clock, showCalls>>

\* Time passes.
ClockTick ==
  /\ \E later \in Instants : later > clock /\ clock' = later
  /\ UNCHANGED <<pdpVars, brandVars, normVars, tabVars, backgroundVars,
                 storage, showCalls, dismissals>>

NextDismissal ==
  \/ UrlChange
  \/ DetectAndShow
  \/ ShowNotificationResume
  \/ DismissClick
  \/ ClockTick
  \/ CsUrlPoll
  \/ CsStartTimer
  \/ CsHandleMessage

SpecDismissal == InitDismissal /\ [][NextDismissal]_vars

(***************************************************************************)
(* Claims about the PDP scorer, checked under SpecPdp                      *)
(***************************************************************************)
\* The signals of a document that are present, and whether a check throws.
PresentSignals(d) == {sig \in ScoredSignals : SignalPresent(d, sig)}
SomeCheckThrows(d) == \E sig \in ScoredSignals : SignalThrows(d, sig)

\* The weights as the claims state them.
StatedWeight(sig) ==
  CASE sig = "structuredData" -> 40
    [] sig = "price"          -> 25
    [] sig = "images"         -> 20
    [] sig = "urlPattern"     -> 25
    [] sig = "reviews"        -> 15
    [] sig = "description"    -> 15
    [] sig = "metadata"       -> 10
    [] sig = "selectors"      -> 10
    [] sig = "breadcrumbs"    -> 15
    [] sig = "shipping"       -> 15

RECURSIVE StatedSum(_)
StatedSum(S) ==
  IF S = {} THEN 0
  ELSE LET sig == CHOOSE x \in S : TRUE
       IN  StatedWeight(sig) + StatedSum(S \ {sig})

\* C1: a run of isProductPage that returns, returns true if and only if the
\* action-button gate is true and the summed score is at least 75, and so does
\* the verdict of a debugDetection that returns; 74 points are below the
\* threshold and 75 points meet it.
C1_GateAndThreshold ==
  /\ pdp.state = "returned" =>
       /\ pdp.hasActionButtons = detectActionButtons(doc)
       /\ pdp.ret <=> (detectActionButtons(doc) /\ pdp.confidenceScore >= 75)
  /\ dbg.state = "returned" =>
       (dbg.isPDP <=> (detectActionButtons(doc) /\ dbg.totalScore >= 75))
  /\ ~MeetsThreshold(74)
  /\ MeetsThreshold(75)

\* C1 witness: a gated run that gathered exactly 75 points and returned true.
C1_Witness ==
  /\ pdp.state = "returned"
  /\ detectActionButtons(doc)
  /\ pdp.confidenceScore = 75
  /\ pdp.ret

AddSignal(d, sig) ==
  CASE sig = "structuredData" -> [d EXCEPT !.ldJson = Append(@, "product")]
    [] sig = "breadcrumbs"    -> [d EXCEPT !.breadcrumb = "trail"]
    [] OTHER                  -> [d EXCEPT !.facts = @ \cup {sig}]

\* C4: making one absent signal present, the gate and all other signals held
\* fixed, never lowers the score, and a document classified as a PDP stays one.
C4_Monotone ==
  (pdp.state = "returned" /\ ~SomeCheckThrows(doc)) =>
    \A sig \in ScoredSignals \ PresentSignals(doc) :
      LET more == AddSignal(doc, sig)
          run  == isProductPage(more)
      IN  /\ PresentSignals(more) = PresentSignals(doc) \cup {sig}
          /\ detectActionButtons(more) = detectActionButtons(doc)
          /\ run.state = "returned"
          /\ run.confidenceScore >= pdp.confidenceScore
          /\ pdp.ret => run.ret

\* C4 witness: a gated run that is not a PDP, and one more signal makes it one.
C4_Witness ==
  /\ pdp.state = "returned"
  /\ detectActionButtons(doc)
  /\ ~pdp.ret
  /\ \E sig \in ScoredSignals \ PresentSignals(doc) :
       isProductPage(AddSignal(doc, sig)).ret

C20_AsStated ==
  pdp.state # "none" =>
    /\ pdp.state = "returned"
    /\ pdp.hasActionButtons =>
         /\ pdp.calls = CheckOrder
         /\ pdp.signals = {sig \in PresentSignals(doc) : ~SignalThrows(doc, sig)}
         /\ pdp.confidenceScore = StatedSum(pdp.signals)

\* The scoring table of the README: the points of each signal it lists.
ReadmeTable ==
  [sig \in {"price", "images", "urlPattern", "breadcrumbs", "shipping",
            "reviews", "title"} |->
     CASE sig = "price"       -> 35
       [] sig = "images"      -> 20
       [] sig = "urlPattern"  -> 25
       [] sig = "breadcrumbs" -> 15
       [] sig = "shipping"    -> 15
       [] sig = "reviews"     -> 10
       [] sig = "title"       -> 10]

RECURSIVE ReadmeSum(_)
ReadmeSum(S) ==
  IF S = {} THEN 0
  ELSE LET sig == CHOOSE x \in S : TRUE
       IN  ReadmeTable[sig] + ReadmeSum(S \ {sig})

\* C29 as stated: the score of a gated run is built from the README's table
\* (price 35, images 20, URL patterns 25, breadcrumbs 15, shipping 15,
\* reviews 10, product title 10): on a document whose present signals are all
\* in the table, the score is the sum of the table's points for them and the
\* document is a PDP exactly when that sum reaches 75, and the run checks a
\* product-title signal.
C29_AsStated ==
  (/\ pdp.state = "returned"
   /\ pdp.hasActionButtons
   /\ ~SomeCheckThrows(doc)
   /\ PresentSignals(doc) \subseteq DOMAIN ReadmeTable) =>
    /\ pdp.confidenceScore = ReadmeSum(PresentSignals(doc))
    /\ pdp.ret <=> ReadmeSum(PresentSignals(doc)) >= PdpThreshold
    /\ \E i \in 1..Len(pdp.calls) : pdp.calls[i] = "title"

(***************************************************************************)
(* Claims about the brand voter, checked under SpecBrand                   *)
(***************************************************************************)
\* The number of candidates that normalise to exactly the key k.
Votes(candidates, k) ==
  Cardinality({i \in 1..Len(candidates) : normalizeBrand(candidates[i]) = k})

\* The key with the most votes, the first such in the order of keys; no key
\* when no candidate matches any.
FirstMaxKey(candidates, keys) ==
  LET count == [j \in 1..Len(keys) |-> Votes(candidates, keys[j])]
  IN  IF \A j \in 1..Len(keys) : count[j] = 0 THEN None
      ELSE Some(keys[CHOOSE j \in 1..Len(keys) :
                       /\ \A l \in 1..Len(keys) : count[l] <= count[j]
                       /\ \A l \in 1..(j - 1) : count[l] < count[j]])

\* The sequence with the elements at i and j exchanged.
Swap(seq, i, j) ==
  [n \in 1..Len(seq) |-> IF n = i THEN seq[j] ELSE IF n = j THEN seq[i] ELSE seq[n]]

\* C7: the vote returns null or the record stored in the registry under a key
\* of the registry, the winning key; with no candidates or an empty registry
\* it returns null, and the brand reported is the name of a registry record.
C7_WinnerInRegistry ==
  brandRun.state = "returned" =>
    LET m == brandRun.brandsMap
    IN  /\ \/ brandRun.bestBrand = None
           \/ \E i \in 1..Len(m) :
                /\ brandRun.winningBrandName = Some(m[i][1])
                /\ brandRun.bestBrand = Some(m[i][2])
        /\ (brandRun.candidates = <<>> \/ m = <<>>) => brandRun.bestBrand = None
        /\ brandRun.result # None =>
             \E i \in 1..Len(m) :
               /\ brandRun.result[1].productInfo.brand = m[i][2].name
               /\ brandRun.result[1].productInfo.cashback = m[i][2].cashback

\* C7 witness: a run on a registry of two keys that returned a record.
C7_Witness ==
  /\ brandRun.state = "returned"
  /\ Len(brandRun.brandsMap) = 2
  /\ brandRun.bestBrand # None
  /\ brandRun.result # None

\* The sequence read backwards.
Reverse(seq) == [n \in 1..Len(seq) |-> seq[Len(seq) + 1 - n]]

\* C8 as stated: the vote returns the record of the registry key with the
\* most votes, the first in the registry's insertion order among those with
\* the most, and nothing when no candidate matches a key; exchanging two
\* neighbouring candidates, or reading the candidates backwards, does not
\* change what is returned.
C8_AsStated ==
  brandRun.state = "returned" =>
    LET m == brandRun.brandsMap
        c == brandRun.candidates
        first == FirstMaxKey(c, MapKeys(m))
        reordered == {Swap(c, i, i + 1) : i \in 1..(Len(c) - 1)} \cup {Reverse(c)}
    IN  /\ brandRun.bestBrand =
             (IF first = None THEN None ELSE Some(MapGet(m, first[1])))
        /\ \A r \in reordered :
             determineBestBrandByVotes(r, m).bestBrand = brandRun.bestBrand

\* C8 witness: two keys tie for the most votes, the first candidate that
\* matches a key matches the second of them, and the first key's record was
\* returned.
C8_Witness ==
  /\ brandRun.state = "returned"
  /\ Len(brandRun.brandsMap) = 2
  /\ LET keys == MapKeys(brandRun.brandsMap)
         c == brandRun.candidates
     IN  /\ Votes(c, keys[1]) = Votes(c, keys[2])
         /\ Votes(c, keys[1]) >= 1
         /\ \E i \in 1..Len(c) :
              /\ normalizeBrand(c[i]) = keys[2]
              /\ \A l \in 1..(i - 1) : normalizeBrand(c[l]) # keys[1]
         /\ brandRun.winningBrandName = Some(keys[1])
         /\ brandRun.bestBrand = Some(MapGet(brandRun.brandsMap, keys[1]))

\* C9 as stated: detectBrandOnPage reports a supported brand if and only if
\* some candidate's normalised form equals some registry key.
C9_AsStated ==
  brandRun.state = "returned" =>
    ((brandRun.result # None /\ brandRun.result[1].isSupported)
       <=> \E i \in 1..Len(brandRun.candidates) :
             MapHas(brandRun.brandsMap, normalizeBrand(brandRun.candidates[i])))

\* Mentions that may be added to a candidate list.
ExtraMentions == {Nike, NikeUpper, Nikes, LevisApostrophe, Levis, Dash}

\* C10: the tally holds, for every registry key, the number of candidates that
\* normalise to it, counted with multiplicity (a text that two page sources
\* give is two candidates); one more candidate for a key k leaves the winning
\* key as it was or makes it k, and never takes the win away from k.
C10_VotesWithMultiplicity ==
  brandRun.state = "returned" =>
    LET m == brandRun.brandsMap
        c == brandRun.candidates
    IN  /\ \A j \in 1..Len(m) :
             LET k == m[j][1]
             IN  IF Votes(c, k) = 0 THEN ~MapHas(brandRun.voteCounts, k)
                 ELSE /\ MapHas(brandRun.voteCounts, k)
                      /\ MapGet(brandRun.voteCounts, k) = Votes(c, k)
        /\ (page.ogBrand # None /\ page.ogBrand = page.ogSiteName
              /\ trim(page.ogBrand[1]) # <<>>) =>
             Cardinality({i \in 1..Len(c) : c[i] = trim(page.ogBrand[1])}) >= 2
        /\ \A x \in ExtraMentions :
             MapHas(m, normalizeBrand(x)) =>
               LET k == normalizeBrand(x)
                   again == determineBestBrandByVotes(Append(c, x), m)
               IN  /\ again.winningBrandName \in {Some(k), brandRun.winningBrandName}
                   /\ brandRun.winningBrandName = Some(k)
                        => again.winningBrandName = Some(k)
                   /\ (brandRun.bestBrand # None /\ brandRun.bestBrand = WinnerRecord(m, k))
                        => again.bestBrand = brandRun.bestBrand

\* C10 witness: the same text is a candidate twice, its key has two votes or
\* more and wins over a key that comes first in the registry and has one.
C10_Witness ==
  /\ brandRun.state = "returned"
  /\ Len(brandRun.brandsMap) = 2
  /\ LET keys == MapKeys(brandRun.brandsMap)
         c == brandRun.candidates
     IN  /\ \E i, j \in 1..Len(c) :
              i # j /\ c[i] = c[j] /\ normalizeBrand(c[i]) = keys[2]
         /\ Votes(c, keys[1]) = 1
         /\ MapGet(brandRun.voteCounts, keys[2]) >= 2
         /\ brandRun.winningBrandName = Some(keys[2])
         /\ brandRun.bestBrand # None

DigitSeq == <<"0", "1", "2", "3", "4", "5", "6", "7", "8", "9">>
RECURSIVE ParseDigits(_, _)
ParseDigits(s, acc) ==
  IF s = <<>> THEN acc
  ELSE ParseDigits(Tail(s),
         10 * acc + (CHOOSE d \in 0..9 : DigitSeq[d + 1] = Head(s)))

\* C14 as stated: after a successful load, for every data row with a name,
\* the registry holds under the normalised name a record with that row's
\* name and, where the row gives one, that row's cashback value.
C14_AsStated ==
  lastLoad = "resolved" =>
    \A i \in 2..Len(csvLines) :
      LET columns == split(csvLines[i], ",")
          name == RemoveChars(trim(columns[1]), {"\""})
      IN  name # <<>> =>
            /\ MapHas(SUPPORTED_BRANDS_MAP, normalizeBrand(name))
            /\ MapGet(SUPPORTED_BRANDS_MAP, normalizeBrand(name)).name = name
            /\ Len(columns) >= 2 =>
                 MapGet(SUPPORTED_BRANDS_MAP, normalizeBrand(name)).cashback
                   = ParseDigits(trim(columns[2]), 0)

(***************************************************************************)
(* Claims about the candidate sources, checked under SpecCandidates        *)
(***************************************************************************)
\* The public suffixes of the hostnames of CandidatePages, as lists of labels.
PublicSuffixes ==
  { << <<"c", "o", "m">> >>, << <<"c", "o">>, <<"u", "k">> >> }

\* The number of labels of the longest public suffix of the hostname that
\* leaves a label before it; 0 when there is none.
SuffixLength(hostname) ==
  LET labels == split(hostname, ".")
      fits == {n \in 1..(Len(labels) - 1) :
                 SubSeq(labels, Len(labels) - n + 1, Len(labels)) \in PublicSuffixes}
  IN  IF fits = {} THEN 0 ELSE CHOOSE n \in fits : \A m \in fits : m <= n

\* The label immediately before the public suffix.
RegistrableLabel(hostname) ==
  LET labels == split(hostname, ".")
  IN  labels[Len(labels) - SuffixLength(hostname)]

\* C21 as stated: for a hostname with a public suffix the last candidate of a
\* run is the label immediately before the public suffix.
C21_AsStated ==
  (brandRun.state = "returned" /\ SuffixLength(page.hostname) > 0) =>
    /\ brandRun.candidates # <<>>
    /\ brandRun.candidates[Len(brandRun.candidates)] = RegistrableLabel(page.hostname)

\* C22: on www.underarmour.com, with no other source giving a candidate and a
\* registry that holds the key underarmour, the only candidate of a run is
\* the label underarmour and the run returns the registry's record for that
\* key as the supported brand.
C22_DomainLabelWins ==
  LET key == normalizeBrand(UnderArmour)
  IN  (/\ brandRun.state = "returned"
       /\ page.hostname = UnderArmourHost
       /\ page.ogBrand = None
       /\ TitleCandidates(extractProductTitle(page), MapKeys(brandRun.brandsMap)) = <<>>
       /\ MapHas(brandRun.brandsMap, key)) =>
        /\ brandRun.candidates = <<key>>
        /\ brandRun.result # None
        /\ brandRun.result[1].isSupported
        /\ brandRun.result[1].productInfo.brand = MapGet(brandRun.brandsMap, key).name
        /\ brandRun.result[1].productInfo.brand = UnderArmour

\* C22 witness: such a run, on a page with a title that names no brand of a
\* registry of two brands.
C22_Witness ==
  /\ brandRun.state = "returned"
  /\ page.hostname = UnderArmourHost
  /\ page.ogBrand = None
  /\ page.h1 = Some(NikesAir)
  /\ MapKeys(brandRun.brandsMap) = <<normalizeBrand(Nike), normalizeBrand(UnderArmour)>>
  /\ brandRun.candidates = <<normalizeBrand(UnderArmour)>>
  /\ brandRun.result # None

\* The candidates a run took from the title: on the pages of CandidatePages
\* the only other sources are the brand meta tag and the hostname.
TitleSourceCandidates(run, p) ==
  SubSeq(run.candidates, 1,
         Len(run.candidates) - Len(MetaCandidate(p.ogBrand))
                             - Len(DomainCandidate(p.hostname)))

\* One candidate for each key that occurs in the title as a whole word,
\* whatever the case: the substring of the title where it occurs.
RECURSIVE WholeWordCandidates(_, _)
WholeWordCandidates(productTitle, keys) ==
  IF keys = <<>> THEN <<>>
  ELSE LET hits == MatchPositions(productTitle, Head(keys))
           rest == WholeWordCandidates(productTitle, Tail(keys))
       IN  IF hits = {} THEN rest
           ELSE LET index == CHOOSE pos \in hits : \A other \in hits : pos <= other
                IN  <<SubSeq(productTitle, index + 1, index + Len(Head(keys)))>> \o rest

\* C23 as stated: the candidates a run takes from the title are, for every
\* registry key that occurs in the title as a whole word, the matched
\* substring in the title's casing, and nothing for any other key.
C23_AsStated ==
  brandRun.state = "returned" =>
    TitleSourceCandidates(brandRun, page)
      = WholeWordCandidates(extractProductTitle(page), MapKeys(brandRun.brandsMap))

(***************************************************************************)
(* Claims about the breadcrumb source, checked under SpecBreadcrumbs       *)
(***************************************************************************)
\* The generic terms, in lower case.
GenericTerms ==
  {<<"h", "o", "m", "e">>, <<"s", "h", "o", "p">>,
   <<"p", "r", "o", "d", "u", "c", "t", "s">>}

\* The breadcrumb candidates the statement gives for a trail of link texts.
StatedBreadcrumb(trail) ==
  IF Len(trail) < 2 THEN <<>>
  ELSE LET segment == trim(trail[Len(trail) - 1])
       IN  IF Len(segment) <= 2 \/ toLowerCase(segment) \in GenericTerms
           THEN <<>>
           ELSE <<segment>>

\* C37: the candidates of a run are those of the same page without its
\* breadcrumb trail, with what the breadcrumb source gives put in at one
\* place: nothing when the trail has fewer than two links, or when the text
\* of the second-to-last link (without the white space around it) has two or
\* fewer characters or is home, shop or products in any casing; otherwise
\* that text, once.
C37_BreadcrumbSource ==
  brandRun.state = "returned" =>
    LET base == findAllBrandCandidates([page EXCEPT !.breadcrumbItems = <<>>],
                                       MapKeys(brandRun.brandsMap))
        stated == StatedBreadcrumb(page.breadcrumbItems)
    IN  \E k \in 0..Len(base) :
          brandRun.candidates
            = SubSeq(base, 1, k) \o stated \o SubSeq(base, k + 1, Len(base))

\* C37 witness: a run on the trail Home > Levis > Air, on a page with a
\* semantic brand element and a site name, took Levis, the second-to-last
\* link, as its second candidate and counted a vote.
C37_Witness ==
  /\ brandRun.state = "returned"
  /\ page.semantic = <<Nikes>>
  /\ page.ogSiteName = Some(Nike)
  /\ page.breadcrumbItems = <<Home, Levis, Air>>
  /\ Len(brandRun.candidates) >= 3
  /\ brandRun.candidates[2] = Levis
  /\ brandRun.candidates[3] = Nike
  /\ brandRun.voteCounts # <<>>

(***************************************************************************)
(* Claims about normalizeBrand, checked under SpecNorm                     *)
(***************************************************************************)
\* C11: normalisation is idempotent: applied to its own result it returns
\* that result, for every string over the alphabet.
C11_Idempotent ==
  (normRun.state = "returned" /\ normInput.typeof = "string") =>
    /\ normRun.value = normalizeBrand(normInput.value)
    /\ normalizeBrand(normRun.value) = normRun.value
    /\ normalizeBrandAny(StringValue(normRun.value)).value = normRun.value

\* C11 witness: a string with an upper-case letter, a stripped symbol and
\* whitespace was normalised to the lower-case letter alone.
C11_Witness ==
  /\ normRun.state = "returned"
  /\ normInput.typeof = "string"
  /\ \E i, j, k \in 1..Len(normInput.value) :
       /\ normInput.value[i] = "N"
       /\ normInput.value[j] \in StrippedSymbols
       /\ normInput.value[k] \in WhiteSpace
  /\ normRun.value = <<"n">>

\* C12: normalizeBrand is total and pure: on every value, string or not, it
\* returns a string and does not throw, and a further call on the same value
\* returns what the call before returned.
C12_TotalAndPure ==
  /\ [](normRun.state # "none" =>
          /\ normRun.state = "returned"
          /\ normRun.typeof = "string"
          /\ normInput.typeof # "string" => normRun.value = <<>>)
  /\ [][(NormalizeBrand /\ normRun.state # "none") =>
          /\ normRun'.state = normRun.state
          /\ normRun'.typeof = normRun.typeof
          /\ normRun'.value = normRun.value
          /\ normInput' = normInput]_vars

\* C12 witness: a truthy value that is not a string was normalised twice and
\* gave the empty string.
C12_Witness ==
  /\ normInput.typeof = "number"
  /\ ~Falsy(normInput)
  /\ normRun.calls = 2
  /\ normRun.state = "returned"
  /\ normRun.value = <<>>

(***************************************************************************)
(* Claims about the tab, checked under SpecTab                             *)
(***************************************************************************)
\* C15 as stated: once the registry has been loaded in a page context no
\* later evaluation loads it again, and the registry map and the key list
\* are never assigned again.
C15_AsStated ==
  /\ [](brandsLoaded => (runnerAwaiting = 0 /\ cs.pc # "awaitLoad"))
  /\ [][brandsLoaded =>
          /\ SUPPORTED_BRANDS_MAP' = SUPPORTED_BRANDS_MAP
          /\ SUPPORTED_BRANDS_ARRAY' = SUPPORTED_BRANDS_ARRAY
          /\ lastLoad' = lastLoad]_vars

\* The steps that run detectBrandOnPage: RunnerResume is the only step that
\* ends an await of the runner, CsFirstTimer the only one that fires the first
\* detection timer without a start timer, CsRetryTimer the only one that fires
\* the retry timer.
DetectionStep ==
  \/ runnerAwaiting' = runnerAwaiting - 1
  \/ timers'.first = timers.first - 1 /\ timers'.start = timers.start
  \/ timers'.retry = timers.retry - 1

\* C16: every run of detectBrandOnPage, by runDetection or by the content
\* script, starts when a load of the registry has ended, in the try block or
\* in the catch block; it returns, and the registry it read is the one that
\* load left: the parsed brand list or the empty registry.  The content script
\* exists and its timers are pending only once a load has ended.
C16_VotingAfterLoad ==
  /\ [][DetectionStep =>
          /\ brandsLoaded'
          /\ lastLoad' \in {"resolved", "rejected"}
          /\ brandRun'.state = "returned"
          /\ brandRun'.brandsMap = SUPPORTED_BRANDS_MAP'
          /\ brandRun'.brandsMap \in {BuildBrandsMap(csvLines), <<>>}]_vars
  /\ []((cs.pc # "absent" \/ timers # NoTimers \/ messages # <<>>) => brandsLoaded)

\* C16 witness: the load failed, the detection that followed read the empty
\* registry on a page that names a brand, and its negative result is on its
\* way to the background.
C16_Witness ==
  /\ lastLoad = "rejected"
  /\ brandRun.state = "returned"
  /\ brandRun.brandsMap = <<>>
  /\ brandRun.candidates # <<>>
  /\ messages # <<>>
  /\ messages[Len(messages)].type = "DETECTION_COMPLETE"
  /\ messages[Len(messages)].brandResult = None

C18_AsStated ==
  \A i \in 1..Len(notifications) :
    LET view == TabViews[notifications[i].href]
    IN  /\ isProductPage(view.doc).state = "returned"
        /\ isProductPage(view.doc).ret
        /\ detectBrandOnPage(view.page, BuildBrandsMap(csvLines),
                             MapKeys(BuildBrandsMap(csvLines))).result # None

\* C19 as stated: when the background handles the DETECTION_ERROR of a pass in
\* which a detector threw, it injects nothing and the tab has no entry
\* afterwards.
C19_AsStated ==
  [][(BackgroundOnMessage /\ Head(messages).type = "DETECTION_ERROR") =>
       /\ uiInjections' = uiInjections
       /\ ~MapHas(detectedProducts', TabId)]_vars

(***************************************************************************)
(* Claims about the content script                                         *)
(***************************************************************************)
\* C24: a retry is scheduled only by a first attempt, one at a time, and only
\* when that attempt returned without a supported brand on a hostname that is
\* no special merchant's; whenever a retry timer is pending, the attempt it
\* starts uses the timer up and schedules nothing, so the attempts of one
\* startDetection call end after the second.
C24_TwoAttempts ==
  /\ [][timers'.retry > timers.retry =>
          /\ timers'.first = timers.first - 1
          /\ timers'.retry = timers.retry + 1
          /\ brandRun'.state = "returned"
          /\ brandRun'.result = None
          /\ MatchedMerchants(page.hostname) = {}]_vars
  /\ [](timers.retry > 0 =>
          DetectPage(TRUE, DetectWith(page, CurrentRegistry), page.hostname, cs,
                     [timers EXCEPT !.retry = @ - 1], showPending).timers
            = [timers EXCEPT !.retry = @ - 1])

\* C24 witness: the content script is running, neither attempt of its one
\* startDetection call found anything, and no timer is left.
C24_Witness ==
  /\ cs.pc = "running"
  /\ reDetects = 0
  /\ timers = NoTimers
  /\ cs.detectionResult = None
  /\ showPending = 0
  /\ brandRun.state = "returned"
  /\ brandRun.result = None

\* C25: the step in which the running content script notices a new URL sets
\* notificationShown to false and detectionResult to null, removes every
\* notification from the document and runs no detection; it arms the timer
\* that starts the detection for the new URL, and that timer is armed by no
\* other step.
C25_NavigationReset ==
  /\ [][(cs.pc = "running" /\ cs'.lastUrl # cs.lastUrl) =>
          /\ cs'.lastUrl = href
          /\ cs'.notificationShown = FALSE
          /\ cs'.detectionResult = None
          /\ notifications' = <<>>
          /\ brandRun' = brandRun
          /\ timers' = [timers EXCEPT !.start = @ + 1]]_vars
  /\ [][timers'.start > timers.start =>
          (cs.pc = "running" /\ cs'.lastUrl # cs.lastUrl)]_vars

\* C25 witness: after a URL change the content script has just reset a view
\* for which it had shown a notification: the start timer is armed, the flag
\* is down, the result is null, the document holds no notification and the
\* tab still has the entry of the old view.
C25_Witness ==
  /\ navs = 1
  /\ cs.pc = "running"
  /\ cs.lastUrl = href
  /\ timers.start = 1
  /\ ~cs.notificationShown
  /\ cs.detectionResult = None
  /\ notifications = <<>>
  /\ showPending = 0
  /\ timers.first = 0

\* C30 as stated: a notification is appended only while notificationShown is
\* false; appending sets the flag and only construction, RE_DETECT and a
\* noticed URL change put it down, so at most one notification is appended
\* between two resets.
C30_AsStated ==
  [][Len(notifications') > Len(notifications) => cs.notificationShown = FALSE]_vars

\* C36: content_main.js evaluated in a page that has an instance creates no
\* other and starts nothing, and the one instance goes through its init once
\* and forward only: constructed where there was none, then the load of the
\* brands, then the preferences, and then either running, which is where the
\* URL-polling interval and the message listener are registered, or stopped.
C36_SingleInstance ==
  /\ [][(uiInjections'.executeScript < uiInjections.executeScript
         /\ cs.pc # "absent") => (cs' = cs /\ timers' = timers)]_vars
  /\ [][cs'.pc # cs.pc =>
         \/ cs.pc = "absent" /\ cs'.pc = "awaitLoad"
         \/ cs.pc = "awaitLoad" /\ cs'.pc = "awaitPrefs"
         \/ cs.pc = "awaitPrefs" /\ cs'.pc \in {"running", "stopped"}]_vars

\* C36 witness: after a URL change and a second positive detection pass,
\* content_main.js is about to be evaluated again in the page whose instance
\* is running.
C36_Witness ==
  /\ navs > 0
  /\ cs.pc = "running"
  /\ uiInjections.executeScript > 0

\* C32 as stated: a call of startDetection cancels the run an earlier call
\* left pending, so at most one first-attempt run of detectPage is pending
\* at any time.
C32_AsStated == timers.first <= 1

(***************************************************************************)
(* Claims about the dismissal window, checked under SpecDismissal          *)
(***************************************************************************)
\* The user dismissed a notification on the URL less than 15 minutes ago.
InDismissalWindow(url) ==
  /\ dismissals[url] # None
  /\ clock - dismissals[url][1] < fifteenMinutes

\* C31 as stated: a notification is never appended while the page shows a
\* URL on which the user dismissed one less than 15 minutes ago, and a
\* showNotification call that has asked for the record ends without a
\* notification only if the URL it was called on is in that window: not for
\* a dismissal on another URL and not from 15 minutes on.
C31_AsStated ==
  /\ [][Len(notifications') > Len(notifications) => ~InDismissalWindow(href)]_vars
  /\ [][(/\ showCalls # <<>>
         /\ showCalls' = Tail(showCalls)
         /\ notifications' = notifications) =>
           InDismissalWindow(Head(showCalls).key)]_vars

\* C35 as stated, for the showNotification calls: a call that asked for its
\* record on an earlier URL and resumes after the URL observer has noticed
\* the change and reset the state appends no notification and leaves
\* notificationShown and detectionResult as the reset made them.
C35_AsStated ==
  [][(/\ showCalls # <<>>
      /\ showCalls' = Tail(showCalls)
      /\ Head(showCalls).key # href
      /\ cs.lastUrl = href) =>
        (notifications' = notifications /\ cs' = cs)]_vars

(***************************************************************************)
(* Claims about the background, checked under SpecBackground               *)
(***************************************************************************)
\* C33 as stated: once the background has handled a detection message of the
\* tab, detectedProducts holds an entry for the tab exactly if that message
\* was a DETECTION_COMPLETE with a supported brand on a product page, and an
\* entry always has isSupported and isPdp true.  Checked under SpecTab, in
\* which the tab is never removed.
C33_AsStated ==
  /\ [][(messages # <<>> /\ messages' = Tail(messages)) =>
         (MapHas(detectedProducts', TabId) <=>
            /\ Head(messages).type = "DETECTION_COMPLETE"
            /\ Head(messages).brandResult # None
            /\ Head(messages).brandResult[1].isSupported
            /\ Head(messages).isPdp)]_vars
  /\ [](MapHas(detectedProducts, TabId) =>
         /\ MapGet(detectedProducts, TabId).isSupported
         /\ MapGet(detectedProducts, TabId).isPdp)

\* C34 as stated: when insertCSS completes and handleDetectionComplete goes
\* on to executeScript, or when content_main.js is evaluated and constructs
\* the content script, the latest detection result handled for the tab is
\* the positive one that began the injection, so detectedProducts holds the
\* tab's entry: a result that is not positive would have deleted it.
C34_AsStated ==
  [][(\/ uiInjections'.executeScript > uiInjections.executeScript
      \/ cs.pc = "absent" /\ cs'.pc # "absent") =>
        MapHas(detectedProducts, TabId)]_vars

\* C26 as stated: while the tab shows a page of an excluded domain, neither
\* the detection scripts nor content_main.js have been injected into it.
C26_AsStated ==
  IsExcluded(page.hostname) => (injectedHere = 0 /\ cs.pc = "absent")

\* C27 as stated: the detection scripts are injected into one page load at
\* most once, whatever events the browser sends for the load.
C27_AsStated == injectedHere <= 1

\* C28 as stated: once tabs.onRemoved has been handled for the closed tab,
\* detectedProducts has no entry for it.
C28_AsStated ==
  (~tabOpen /\ tabEvents = <<>>) => ~MapHas(detectedProducts, TabId)

====
